---- MODULE Spec2Model ----
(***************************************************************************)
(* walk-the-dog (src/src/game.rs, src/src/engine.rs, src/src/segment.rs).  *)
(*                                                                         *)
(* The red-hat-boy character state machine (module red_hat_boy_states and  *)
(* the enum RedHatBoyStateMachine): the machine value is a record          *)
(*   [state |-> tag, context |-> [frame, position, velocity]]              *)
(* and every typestate method of the source is an operator on it.          *)
(*                                                                         *)
(* The session WalkTheDog (Loading, or Loaded with the character, the      *)
(* platform, the stone and two backgrounds) with initialize, update and    *)
(* draw, and GameLoop::start with its requestAnimationFrame callback and   *)
(* the key-event channel.  The obstacles of segment.rs (Platform, Barrier  *)
(* and the two layouts) and the session that keeps them in a list.         *)
(*                                                                         *)
(* Spec and SpecRun send events to the character alone, SpecTicks only     *)
(* Update ticks, SpecJump runs, jumps and Update ticks under weak fairness *)
(* of Update; SpecGame calls the three operations of the Game trait in     *)
(* any order; SpecLoop runs GameLoop::start and its callbacks phase by     *)
(* phase, SpecStall with callbacks that follow long stalls; SpecSegment    *)
(* steps and draws the session with the obstacle list.                     *)
(***************************************************************************)
EXTENDS Integers, FiniteSets, Sequences, TLC

\* ------------------------------------------------------------ constants
CANVAS_HEIGHT == 600
FLOOR == 479
STARTING_POINT == -20
IDLE_FRAMES == 29
RUNNING_FRAMES == 23
SLIDING_FRAMES == 14
JUMPING_FRAMES == 35
FALLING_FRAMES == 29
RUNNING_SPEED == 4
JUMP_SPEED == -25
GRAVITY == 1
PLAYER_HEIGHT == CANVAS_HEIGHT - FLOOR
LOW_PLATFORM == 420
HIGH_PLATFORM == 375
FIRST_PLATFORM == 370

\* ------------------------------------------------------------ bounds
\* Update ticks are explored while velocity.y is below MaxVelY (the source
\* has no ceiling on velocity.y short of the i16 range).
MaxVelY == 32

\* ------------------------------------------------------------ i16
\* Point.x / Point.y are i16.  A sum that leaves the range wraps in a
\* release build; MaxVelY keeps every sum of this specification in range.
I16(n) == ((n + 32768) % 65536) - 32768

\* ------------------------------------------------------------ RedHatBoyContext
reset_frame(c) == [c EXCEPT !.frame = 0]

\* run_right that also steps the character itself to the right.
run_right_stepping(c) ==
    [c EXCEPT !.velocity.x = I16(c.velocity.x + RUNNING_SPEED),
              !.position.x = I16(c.position.x + RUNNING_SPEED)]

run_right(c) == [c EXCEPT !.velocity.x = I16(c.velocity.x + RUNNING_SPEED)]

set_vertical_velocity(c, y) == [c EXCEPT !.velocity.y = y]

\* stop that halts the fall instead of the run.
stop_falling(c) == [c EXCEPT !.velocity.y = 0]

stop(c) == [c EXCEPT !.velocity.x = 0]

\* set_on that zeroes the vertical velocity only of a descending character.
set_on_descending(c, position) ==
    [c EXCEPT !.position.y = I16(position - PLAYER_HEIGHT),
              !.velocity.y = IF c.velocity.y > 0 THEN 0 ELSE c.velocity.y]

set_on(c, position) ==
    [c EXCEPT !.position.y = I16(position - PLAYER_HEIGHT), !.velocity.y = 0]

fix_frame(c, frame) == [c EXCEPT !.frame = frame]

\* update without the clamp of position.y to the floor line.
Context_update_unclamped(c, frame_count) ==
    LET vy == I16(c.velocity.y + GRAVITY)
        fr == IF c.frame < frame_count THEN c.frame + 1 ELSE 0
    IN  [frame    |-> fr,
         position |-> [x |-> c.position.x, y |-> I16(c.position.y + vy)],
         velocity |-> [x |-> c.velocity.x, y |-> vy]]

\* update whose frame test is <= instead of <: the frame passes the ceiling.
Context_update_past_ceiling(c, frame_count) ==
    LET vy == I16(c.velocity.y + GRAVITY)
        fr == IF c.frame <= frame_count THEN c.frame + 1 ELSE 0
        py == I16(c.position.y + vy)
    IN  [frame    |-> fr,
         position |-> [x |-> c.position.x, y |-> IF py > FLOOR THEN FLOOR ELSE py],
         velocity |-> [x |-> c.velocity.x, y |-> vy]]

Context_update(c, frame_count) ==
    LET vy == I16(c.velocity.y + GRAVITY)
        fr == IF c.frame < frame_count THEN c.frame + 1 ELSE 0
        py == I16(c.position.y + vy)
    IN  [frame    |-> fr,
         position |-> [x |-> c.position.x, y |-> IF py > FLOOR THEN FLOOR ELSE py],
         velocity |-> [x |-> c.velocity.x, y |-> vy]]

\* ------------------------------------------------------------ RedHatBoyState<S>
Idle_new ==
    [state   |-> "Idle",
     context |-> [frame    |-> 0,
                  position |-> [x |-> STARTING_POINT, y |-> FLOOR],
                  velocity |-> [x |-> 0, y |-> 0]]]

Idle_run(s) == [state |-> "Running", context |-> run_right(reset_frame(s.context))]

Idle_update(s) == [state |-> "Idle", context |-> Context_update(s.context, IDLE_FRAMES)]

Running_update(s) ==
    [state |-> "Running", context |-> Context_update(s.context, RUNNING_FRAMES)]

Running_slide(s) == [state |-> "Sliding", context |-> reset_frame(s.context)]

\* jump that adds the jump speed to the vertical velocity instead of setting it.
Running_jump_additive(s) ==
    [state   |-> "Jumping",
     context |-> reset_frame(set_vertical_velocity(s.context,
                                 I16(s.context.velocity.y + JUMP_SPEED)))]

Running_jump(s) ==
    [state   |-> "Jumping",
     context |-> reset_frame(set_vertical_velocity(s.context, JUMP_SPEED))]

Running_knock_out(s) == [state |-> "Falling", context |-> stop(reset_frame(s.context))]

Running_land_on(s, position) ==
    [state |-> "Running", context |-> set_on(s.context, position)]

Sliding_stand(s) == [state |-> "Running", context |-> reset_frame(s.context)]

\* update that ends the slide on frame > SLIDING_FRAMES instead of >=.
Sliding_update_late(s) ==
    LET c == Context_update(s.context, SLIDING_FRAMES)
    IN  IF c.frame > SLIDING_FRAMES
        THEN Sliding_stand([state |-> "Sliding", context |-> c])
        ELSE [state |-> "Sliding", context |-> c]

Sliding_update(s) ==
    LET c == Context_update(s.context, SLIDING_FRAMES)
    IN  IF c.frame >= SLIDING_FRAMES
        THEN Sliding_stand([state |-> "Sliding", context |-> c])
        ELSE [state |-> "Sliding", context |-> c]

Sliding_knock_out(s) == [state |-> "Falling", context |-> stop(reset_frame(s.context))]

\* land_on with the state tag of Jumping's land_on (Running).
Sliding_land_on_standing(s, position) ==
    [state |-> "Running", context |-> set_on(s.context, position)]

Sliding_land_on(s, position) ==
    [state |-> "Sliding", context |-> set_on(s.context, position)]

\* land_on that keeps the state tag of the jump.
Jumping_land_on_aloft(s, position) ==
    [state |-> "Jumping", context |-> set_on(reset_frame(s.context), position)]

Jumping_land_on(s, position) ==
    [state |-> "Running", context |-> set_on(reset_frame(s.context), position)]

\* update that lands only below the floor line (> FLOOR instead of >=).
Jumping_update_below(s) ==
    LET c == Context_update(s.context, JUMPING_FRAMES)
    IN  IF c.position.y > FLOOR
        THEN Jumping_land_on([state |-> "Jumping", context |-> c], CANVAS_HEIGHT)
        ELSE [state |-> "Jumping", context |-> c]

Jumping_update(s) ==
    LET c == Context_update(s.context, JUMPING_FRAMES)
    IN  IF c.position.y >= FLOOR
        THEN Jumping_land_on([state |-> "Jumping", context |-> c], CANVAS_HEIGHT)
        ELSE [state |-> "Jumping", context |-> c]

\* knock_out without stop(): the horizontal velocity survives the knock-out.
Jumping_knock_out_moving(s) == [state |-> "Falling", context |-> reset_frame(s.context)]

Jumping_knock_out(s) == [state |-> "Falling", context |-> stop(reset_frame(s.context))]

Falling_down(s) == [state |-> "KnockedOut", context |-> s.context]

\* update that goes down only past the ceiling (> FALLING_FRAMES instead of >=).
Falling_update_late(s) ==
    LET c == Context_update(s.context, FALLING_FRAMES)
    IN  IF c.frame > FALLING_FRAMES
        THEN Falling_down([state |-> "Falling", context |-> c])
        ELSE [state |-> "Falling", context |-> c]

Falling_update(s) ==
    LET c == Context_update(s.context, FALLING_FRAMES)
    IN  IF c.frame >= FALLING_FRAMES
        THEN Falling_down([state |-> "Falling", context |-> c])
        ELSE [state |-> "Falling", context |-> c]

\* update without fix_frame: the frame wraps like in every other state.
KnockedOut_update_wrapping(s) ==
    [state |-> "KnockedOut", context |-> Context_update(s.context, FALLING_FRAMES)]

KnockedOut_update(s) ==
    [state   |-> "KnockedOut",
     context |-> fix_frame(Context_update(s.context, FALLING_FRAMES), FALLING_FRAMES - 1)]

KnockedOut_land_on(s, position) ==
    [state |-> "KnockedOut", context |-> set_on(s.context, position)]

\* ------------------------------------------------------------ Event
States == {"Idle", "Running", "Sliding", "Jumping", "Falling", "KnockedOut"}

Ev(k) == [kind |-> k, y |-> 0]

Land_ev(h) == [kind |-> "Land", y |-> h]

\* Landing heights the game issues: the platform tops of both layouts and
\* the full canvas height of the automatic landing.
LandHeights == {LOW_PLATFORM, HIGH_PLATFORM, CANVAS_HEIGHT}

\* ------------------------------------------------------------ RedHatBoyStateMachine
transition_match(sm, ev) ==
    CASE sm.state = "Idle"       /\ ev.kind = "Run"      -> Idle_run(sm)
      [] sm.state = "Running"    /\ ev.kind = "Slide"    -> Running_slide(sm)
      [] sm.state = "Running"    /\ ev.kind = "Jump"     -> Running_jump(sm)
      [] sm.state = "Idle"       /\ ev.kind = "Update"   -> Idle_update(sm)
      [] sm.state = "Running"    /\ ev.kind = "Update"   -> Running_update(sm)
      [] sm.state = "Sliding"    /\ ev.kind = "Update"   -> Sliding_update(sm)
      [] sm.state = "Jumping"    /\ ev.kind = "Update"   -> Jumping_update(sm)
      [] sm.state = "Falling"    /\ ev.kind = "Update"   -> Falling_update(sm)
      [] sm.state = "KnockedOut" /\ ev.kind = "Update"   -> KnockedOut_update(sm)
      [] sm.state = "Running"    /\ ev.kind = "KnockOut" -> Running_knock_out(sm)
      [] sm.state = "Jumping"    /\ ev.kind = "KnockOut" -> Jumping_knock_out(sm)
      [] sm.state = "Sliding"    /\ ev.kind = "KnockOut" -> Sliding_knock_out(sm)
      [] sm.state = "Jumping"    /\ ev.kind = "Land"     -> Jumping_land_on(sm, ev.y)
      [] sm.state = "Running"    /\ ev.kind = "Land"     -> Running_land_on(sm, ev.y)
      [] sm.state = "Sliding"    /\ ev.kind = "Land"     -> Sliding_land_on(sm, ev.y)
      [] sm.state = "KnockedOut" /\ ev.kind = "Land"     -> KnockedOut_land_on(sm, ev.y)
      [] OTHER -> sm

\* A Run accepted while already Running (the arm of Idle copied to Running).
transition_run_again(sm, ev) ==
    IF sm.state = "Running" /\ ev.kind = "Run"
    THEN [state |-> "Running", context |-> run_right(sm.context)]
    ELSE transition_match(sm, ev)

\* A Jump accepted while already Jumping (a double jump).
transition_double_jump(sm, ev) ==
    IF sm.state = "Jumping" /\ ev.kind = "Jump"
    THEN [state |-> "Jumping", context |-> set_vertical_velocity(sm.context, JUMP_SPEED)]
    ELSE transition_match(sm, ev)

transition(sm, ev) == transition_match(sm, ev)

\* ------------------------------------------------------------ Rect, Image
\* Rect { x, y, width, height } with the overlap test of section 3.
Rect_new_from_x_y(x, y, width, height) ==
    [x |-> x, y |-> y, width |-> width, height |-> height]

Rect_right(r) == I16(r.x + r.width)

Rect_bottom(r) == I16(r.y + r.height)

Rect_intersects(a, b) ==
    /\ a.x < Rect_right(b)
    /\ Rect_right(a) > b.x
    /\ a.y < Rect_bottom(b)
    /\ Rect_bottom(a) > b.y

\* Image { element, position }: the element is kept as its pixel size.
Image_new(element, position) ==
    [position |-> position, width |-> element.w, height |-> element.h]

Image_bounding_box(img) ==
    Rect_new_from_x_y(img.position.x, img.position.y, img.width, img.height)

Image_move_horizontally(img, distance) ==
    [img EXCEPT !.position.x = I16(@ + distance)]

Image_set_x(img, x) == [img EXCEPT !.position.x = x]

Image_right(img) == Rect_right(Image_bounding_box(img))

\* ------------------------------------------------------------ assets
\* The six files initialize awaits, in the order it awaits them.
AssetFiles == <<"rhb.json", "rhb.png", "BG.png", "Stone.png", "tiles.json", "tiles.png">>

\* What the files hold is data outside the source: the character sheet is taken
\* with one trimmed cell (sprite_source_size x, y and frame w, h) for each of
\* its frames, tiles.json by the size of "13.png", BG.png and Stone.png by their
\* pixel sizes.  The character stands PLAYER_HEIGHT tall on the floor line and
\* the stone reaches the bottom of the canvas; the tile is a third of the
\* 384 x 93 platform of segment.rs.
Assets ==
    { [cell       |-> [x |-> 0, y |-> 0, w |-> 100, h |-> 121],
       tile       |-> [w |-> 128, h |-> 93],
       background |-> [w |-> 300, h |-> 600],
       stone      |-> [w |-> 66, h |-> 54]] }

\* ------------------------------------------------------------ RedHatBoy
RedHatBoy_new(sheet) == [state_machine |-> Idle_new, sprite_sheet |-> sheet]

RedHatBoy_send(boy, ev) ==
    [boy EXCEPT !.state_machine = transition(boy.state_machine, ev)]

RedHatBoy_destination_box(boy) ==
    LET sprite == boy.sprite_sheet
        c == boy.state_machine.context
    IN  Rect_new_from_x_y(I16(c.position.x + sprite.x), I16(c.position.y + sprite.y),
                          sprite.w, sprite.h)

RedHatBoy_bounding_box(boy) ==
    LET destination_box == RedHatBoy_destination_box(boy)
    IN  Rect_new_from_x_y(I16(destination_box.x + 18), I16(destination_box.y + 14),
                          I16(destination_box.width - 28),
                          I16(destination_box.height - 14))

pos_y(boy) == boy.state_machine.context.position.y

velocity_y(boy) == boy.state_machine.context.velocity.y

walking_speed(boy) == boy.state_machine.context.velocity.x

\* ------------------------------------------------------------ Platform (game.rs)
Platform_new(sheet, position) == [sheet |-> sheet, position |-> position]

Platform_destination_box(p) ==
    Rect_new_from_x_y(p.position.x, p.position.y, I16(p.sheet.w * 3), p.sheet.h)

Platform_bounding_boxes(p) ==
    LET destination_box == Platform_destination_box(p)
    IN  << Rect_new_from_x_y(destination_box.x, destination_box.y, 60, 54),
           Rect_new_from_x_y(I16(destination_box.x + 60), destination_box.y,
                             I16(destination_box.width - (60 * 2)),
                             destination_box.height),
           Rect_new_from_x_y(I16(I16(destination_box.x + destination_box.width) - 60),
                             destination_box.y, 60, 54) >>

Platform_intersects(p, rect) ==
    LET boxes == Platform_bounding_boxes(p)
    IN  \E i \in 1..Len(boxes) : Rect_intersects(boxes[i], rect)

\* ------------------------------------------------------------ Walk, WalkTheDog
Codes == {"ArrowDown", "ArrowRight", "Space"}

Loading == [tag |-> "Loading"]

NoCheck == [overlap |-> FALSE, events |-> <<>>, stone |-> <<>>]

Loaded(walk) == [tag |-> "Loaded", walk |-> walk]

Walk_velocity(walk) == I16(-walking_speed(walk.boy))

\* The events a list sends to the character, one after the other.
RECURSIVE RedHatBoy_send_all(_, _)
RedHatBoy_send_all(boy, evs) ==
    IF evs = <<>> THEN boy
    ELSE RedHatBoy_send_all(RedHatBoy_send(boy, Head(evs)), Tail(evs))

\* The key dispatch that tests Space first: Jump, Slide, Run, then the update.
Walk_key_events_jump_first(keystate) ==
    (IF "Space" \in keystate THEN <<Ev("Jump")>> ELSE <<>>)
    \o (IF "ArrowDown" \in keystate THEN <<Ev("Slide")>> ELSE <<>>)
    \o (IF "ArrowRight" \in keystate THEN <<Ev("Run")>> ELSE <<>>)
    \o <<Ev("Update")>>

\* The key dispatch of update followed by walk.boy.update().
Walk_key_events(keystate) ==
    (IF "ArrowDown" \in keystate THEN <<Ev("Slide")>> ELSE <<>>)
    \o (IF "ArrowRight" \in keystate THEN <<Ev("Run")>> ELSE <<>>)
    \o (IF "Space" \in keystate THEN <<Ev("Jump")>> ELSE <<>>)
    \o <<Ev("Update")>>

\* The platform check that lands whatever the vertical velocity is.
Walk_platform_events_any_velocity(boy, platform) ==
    IF Platform_intersects(platform, RedHatBoy_bounding_box(boy))
    THEN IF pos_y(boy) < platform.position.y
         THEN <<Land_ev(Platform_destination_box(platform).y)>>
         ELSE <<Ev("KnockOut")>>
    ELSE <<>>

\* if walk.platform.intersects(..) { if .. { land_on } else { knock_out } }
Walk_platform_events(boy, platform) ==
    IF Platform_intersects(platform, RedHatBoy_bounding_box(boy))
    THEN IF velocity_y(boy) > 0 /\ pos_y(boy) < platform.position.y
         THEN <<Land_ev(Platform_destination_box(platform).y)>>
         ELSE <<Ev("KnockOut")>>
    ELSE <<>>

\* if walk.boy.bounding_box().intersects(walk.stone.bounding_box()) { knock_out }
Walk_stone_events(boy, stone) ==
    IF Rect_intersects(RedHatBoy_bounding_box(boy), Image_bounding_box(stone))
    THEN <<Ev("KnockOut")>>
    ELSE <<>>

\* The background step that puts a background that has left the canvas at
\* the right edge the other one had before it was moved.
Walk_backgrounds_stale(backgrounds, velocity) ==
    LET first    == Image_move_horizontally(backgrounds[1], velocity)
        second   == Image_move_horizontally(backgrounds[2], velocity)
        first1   == IF Image_right(first) < 0
                    THEN Image_set_x(first, Image_right(backgrounds[2])) ELSE first
        second1  == IF Image_right(second) < 0
                    THEN Image_set_x(second, Image_right(backgrounds[1])) ELSE second
    IN  <<first1, second1>>

\* The backgrounds after one step: both moved by the velocity, and one whose
\* right edge is then below 0 set to the right edge of the other.
Walk_backgrounds(backgrounds, velocity) ==
    LET first    == Image_move_horizontally(backgrounds[1], velocity)
        second   == Image_move_horizontally(backgrounds[2], velocity)
        first1   == IF Image_right(first) < 0
                    THEN Image_set_x(first, Image_right(second)) ELSE first
        second1  == IF Image_right(second) < 0
                    THEN Image_set_x(second, Image_right(first1)) ELSE second
    IN  <<first1, second1>>

\* The body of update for a Loaded session: the walk after the step and the
\* events the step sent to the character, in the order it sent them.
Walk_update(walk, keystate) ==
    LET keys     == Walk_key_events(keystate)
        boy1     == RedHatBoy_send_all(walk.boy, keys)
        velocity == Walk_velocity([boy |-> boy1])
        platform == [walk.platform EXCEPT !.position.x = I16(@ + velocity)]
        stone    == Image_move_horizontally(walk.stone, velocity)
        scenery  == Walk_backgrounds(walk.backgrounds, velocity)
        hits     == Walk_platform_events(boy1, platform)
        boy2     == RedHatBoy_send_all(boy1, hits)
        stones   == Walk_stone_events(boy2, stone)
        boy3     == RedHatBoy_send_all(boy2, stones)
    IN  [walk         |-> [boy         |-> boy3,
                           backgrounds |-> scenery,
                           stone       |-> stone,
                           platform    |-> platform],
         after_update |-> boy1,
         hits         |-> hits,
         stones       |-> stones,
         sent         |-> keys \o hits \o stones]

WalkTheDog_update(g, keystate) ==
    IF g.tag = "Loaded" THEN Loaded(Walk_update(g.walk, keystate).walk) ELSE g

\* What the platform check and the stone check of one update saw and sent,
\* from the result r of Walk_update on the character before: the character as
\* walk.boy.update() left it against the moved platform and stone.
Walk_check(before, r) ==
    [before  |-> [state |-> before.state_machine.state,
                  frame |-> before.state_machine.context.frame],
     after   |-> [state |-> r.after_update.state_machine.state,
                  frame |-> r.after_update.state_machine.context.frame],
     overlap |-> Platform_intersects(r.walk.platform,
                                     RedHatBoy_bounding_box(r.after_update)),
     vy      |-> velocity_y(r.after_update),
     vx      |-> walking_speed(r.after_update),
     y       |-> pos_y(r.after_update),
     top     |-> r.walk.platform.position.y,
     events  |-> r.hits,
     stone   |-> r.stones]

\* The draw calls of one draw pass, in order (none for a Loading session).
WalkTheDog_draw(g) ==
    IF g.tag = "Loaded"
    THEN << [op |-> "clear", at |-> Rect_new_from_x_y(0, 0, 600, CANVAS_HEIGHT)],
            [op |-> "background", at |-> g.walk.backgrounds[1].position],
            [op |-> "background", at |-> g.walk.backgrounds[2].position],
            [op |-> "boy", at |-> RedHatBoy_destination_box(g.walk.boy)],
            [op |-> "stone", at |-> g.walk.stone.position],
            [op |-> "platform", at |-> Platform_destination_box(g.walk.platform)] >>
    ELSE <<>>

\* What awaiting one file gives: its content, a load error, or (for the two
\* JSON files) a value that is no Sheet or the value null, which from_value
\* turns into the Option None.
Outcomes == {"ok", "error", "malformed", "null"}

\* At most MaxFailures of the files one initialize awaits give no content.
MaxFailures == 1

\* No file awaited yet.
NoLoads == [i \in 1..Len(AssetFiles) |-> "none"]

\* The number of files awaited so far: they are a prefix of AssetFiles.
Awaited(fetch) == Cardinality({i \in 1..Len(AssetFiles) : fetch[i] # "none"})

\* The awaits that end initialize: a load error (`?`), a JSON value that is
\* no Sheet (expect of from_value), the await of Stone.png when rhb.json held
\* null (ok_or_else(..)? where RedHatBoy::new takes the sheet), tiles.json
\* holding null (sheet.expect in the arguments of Platform::new).
Ends(fetch) ==
    {i \in 1..Awaited(fetch) : \/ fetch[i] \in {"error", "malformed"}
                               \/ i = 4 /\ fetch[1] = "null"
                               \/ i = 5 /\ fetch[5] = "null"}

\* What initialize gives at the first of the awaits in ends.
Ended(g, fetch, ends) ==
    LET first == CHOOSE i \in ends : \A j \in ends : i <= j
    IN  IF fetch[first] = "malformed" \/ (first = 5 /\ fetch[first] = "null")
        THEN [result |-> "Panic", game |-> g]
        ELSE [result |-> "Err", game |-> g]

Walk_new(assets) ==
    [boy         |-> RedHatBoy_new(assets.cell),
     backgrounds |-> << Image_new(assets.background, [x |-> 0, y |-> 0]),
                        Image_new(assets.background,
                                  [x |-> I16(assets.background.w), y |-> 0]) >>,
     stone       |-> Image_new(assets.stone, [x |-> 150, y |-> 546]),
     platform    |-> Platform_new(assets.tile,
                                  [x |-> FIRST_PLATFORM, y |-> LOW_PLATFORM])]

\* initialize that builds a fresh session also for a Loaded one.
WalkTheDog_initialize_again(g, fetch, assets) ==
    IF Ends(fetch) # {} THEN Ended(g, fetch, Ends(fetch))
    ELSE IF Awaited(fetch) = Len(AssetFiles)
    THEN [result |-> "Ok", game |-> Loaded(Walk_new(assets))]
    ELSE [result |-> "Pending", game |-> g]

\* initialize that goes on without the platform image when it does not load.
WalkTheDog_initialize_lenient(g, fetch, assets) ==
    IF g.tag = "Loaded" THEN [result |-> "Err", game |-> g]
    ELSE IF Ends(fetch) \ {6} # {} THEN Ended(g, fetch, Ends(fetch) \ {6})
    ELSE IF Awaited(fetch) = Len(AssetFiles)
    THEN [result |-> "Ok", game |-> Loaded(Walk_new(assets))]
    ELSE [result |-> "Pending", game |-> g]

\* initialize, polled after the files of fetch were awaited (in the order of
\* AssetFiles): a Loaded session returns its error without awaiting; a
\* Loading one returns at the first await of Ends, is Pending at the next
\* await while files are left, and returns the new session after the sixth.
\* The result carries the session the caller holds afterwards.
WalkTheDog_initialize(g, fetch, assets) ==
    IF g.tag = "Loaded" THEN [result |-> "Err", game |-> g]
    ELSE IF Ends(fetch) # {} THEN Ended(g, fetch, Ends(fetch))
    ELSE IF Awaited(fetch) = Len(AssetFiles)
    THEN [result |-> "Ok", game |-> Loaded(Walk_new(assets))]
    ELSE [result |-> "Pending", game |-> g]

\* ------------------------------------------------------------ segment.rs
STONE_ON_GROUND == 546

INITIAL_STONE_OFFSET == 150

INITIAL_PLATFORM_OFFSET == 150

FIRST_STONE == 370

\* Rect::default() and Rect::set_x of the Rect that segment.rs uses.
Rect_default == Rect_new_from_x_y(0, 0, 0, 0)

Rect_set_x(r, x) == [r EXCEPT !.x = x]

\* Platform::new: the sprites are kept as the cells found for the sprite names,
\* the bounding boxes are given relative to position.
SegmentPlatform_new(sprites, position, bounding_boxes) ==
    [kind           |-> "Platform",
     position       |-> position,
     sprites        |-> sprites,
     bounding_boxes |->
         [i \in 1..Len(bounding_boxes) |->
             Rect_new_from_x_y(I16(bounding_boxes[i].x + position.x),
                               I16(bounding_boxes[i].y + position.y),
                               bounding_boxes[i].width, bounding_boxes[i].height)]]

SegmentPlatform_bounding_boxes(p) == p.bounding_boxes

\* Platform::intersects: Some(box) for the first box that overlaps, as a
\* sequence of one box, or None, as the empty sequence.
SegmentPlatform_intersects(p, rect) ==
    LET boxes == p.bounding_boxes
        hit == {i \in 1..Len(boxes) : Rect_intersects(boxes[i], rect)}
    IN  IF hit = {} THEN <<>>
        ELSE <<boxes[CHOOSE i \in hit : \A j \in hit : i <= j]>>

\* The x offsets at which draw puts the sprites: each after the one before.
RECURSIVE SpriteOffsets(_, _)
SpriteOffsets(sprites, x) ==
    IF sprites = <<>> THEN <<>>
    ELSE <<x>> \o SpriteOffsets(Tail(sprites), I16(x + Head(sprites).w))

\* Platform::draw: one draw per sprite, then one outline per bounding box.
SegmentPlatform_draw(p) ==
    LET xs == SpriteOffsets(p.sprites, 0)
    IN  [i \in 1..Len(p.sprites) |->
            [op |-> "sprite",
             at |-> Rect_new_from_x_y(I16(p.position.x + xs[i]), p.position.y,
                                      p.sprites[i].w, p.sprites[i].h)]]
        \o [i \in 1..Len(p.bounding_boxes) |->
               [op |-> "bounding_box", at |-> p.bounding_boxes[i]]]

\* move_horizontally that moves the position and leaves the boxes behind.
SegmentPlatform_move_horizontally_position_only(p, x) ==
    [p EXCEPT !.position.x = I16(@ + x)]

SegmentPlatform_move_horizontally(p, x) ==
    [p EXCEPT !.position.x = I16(@ + x),
              !.bounding_boxes =
                  [i \in 1..Len(p.bounding_boxes) |->
                      Rect_set_x(p.bounding_boxes[i], I16(p.bounding_boxes[i].x + x))]]

\* The resolution against one box: land_on(box.y()) or knock_out().
SegmentPlatform_resolution(p, disturbee, box) ==
    IF velocity_y(disturbee) > 0 /\ pos_y(disturbee) < p.position.y
    THEN Land_ev(box.y)
    ELSE Ev("KnockOut")

\* check_intersection that resolves against every box that overlaps.
SegmentPlatform_check_intersection_every_box(p, disturbee) ==
    LET rect == RedHatBoy_bounding_box(disturbee)
    IN  SelectSeq([i \in 1..Len(p.bounding_boxes) |->
                      IF Rect_intersects(p.bounding_boxes[i], rect)
                      THEN SegmentPlatform_resolution(p, disturbee, p.bounding_boxes[i])
                      ELSE Ev("None")],
                  LAMBDA e : e.kind # "None")

\* Platform::check_intersection: the events it sends to the disturbee.
SegmentPlatform_check_intersection(p, disturbee) ==
    LET found == SegmentPlatform_intersects(p, RedHatBoy_bounding_box(disturbee))
    IN  IF found # <<>>
        THEN <<SegmentPlatform_resolution(p, disturbee, found[1])>>
        ELSE <<>>

SegmentPlatform_right(p) ==
    IF p.bounding_boxes = <<>> THEN Rect_right(Rect_default)
    ELSE Rect_right(p.bounding_boxes[Len(p.bounding_boxes)])

Barrier_new(image) == [kind |-> "Barrier", image |-> image]

\* check_intersection that resolves like a platform: a descending character
\* above the top of the image lands on it.
Barrier_check_intersection_landing(barrier, disturbee) ==
    IF Rect_intersects(RedHatBoy_bounding_box(disturbee), Image_bounding_box(barrier.image))
    THEN IF velocity_y(disturbee) > 0 /\ pos_y(disturbee) < barrier.image.position.y
         THEN <<Land_ev(barrier.image.position.y)>>
         ELSE <<Ev("KnockOut")>>
    ELSE <<>>

\* Barrier::check_intersection: the events it sends to the disturbee.
Barrier_check_intersection(barrier, disturbee) ==
    IF Rect_intersects(RedHatBoy_bounding_box(disturbee), Image_bounding_box(barrier.image))
    THEN <<Ev("KnockOut")>>
    ELSE <<>>

Barrier_draw(barrier) == <<[op |-> "image", at |-> barrier.image.position]>>

Barrier_move_horizontally(barrier, x) ==
    [barrier EXCEPT !.image = Image_move_horizontally(@, x)]

Barrier_right(barrier) == Image_right(barrier.image)

\* trait Obstacle, implemented by Platform and Barrier.
Obstacle_check_intersection(o, disturbee) ==
    IF o.kind = "Barrier" THEN Barrier_check_intersection(o, disturbee)
    ELSE SegmentPlatform_check_intersection(o, disturbee)

Obstacle_draw(o) ==
    IF o.kind = "Barrier" THEN Barrier_draw(o) ELSE SegmentPlatform_draw(o)

Obstacle_move_horizontally(o, x) ==
    IF o.kind = "Barrier" THEN Barrier_move_horizontally(o, x)
    ELSE SegmentPlatform_move_horizontally(o, x)

Obstacle_right(o) ==
    IF o.kind = "Barrier" THEN Barrier_right(o) ELSE SegmentPlatform_right(o)

FLOATING_PLATFORM_BOUNDING_BOXES ==
    << Rect_new_from_x_y(0, 0, 60, 54),
       Rect_new_from_x_y(60, 0, 384 - (60 * 2), 93),
       Rect_new_from_x_y(384 - 60, 0, 60, 54) >>

\* The sprite sheet is kept as the cell of its tiles: "13.png", "14.png" and
\* "15.png" are three cells of that size.
create_floating_platform(sprite_sheet, position) ==
    SegmentPlatform_new(<<sprite_sheet, sprite_sheet, sprite_sheet>>, position,
                        FLOATING_PLATFORM_BOUNDING_BOXES)

stone_and_platform(stone, sprite_sheet, offset_x) ==
    << Barrier_new(Image_new(stone, [x |-> I16(offset_x + INITIAL_STONE_OFFSET),
                                     y |-> STONE_ON_GROUND])),
       create_floating_platform(sprite_sheet, [x |-> I16(offset_x + FIRST_PLATFORM),
                                               y |-> LOW_PLATFORM]) >>

platform_and_stone(stone, sprite_sheet, offset_x) ==
    << create_floating_platform(sprite_sheet,
                                [x |-> I16(offset_x + INITIAL_PLATFORM_OFFSET),
                                 y |-> HIGH_PLATFORM]),
       Barrier_new(Image_new(stone, [x |-> I16(offset_x + FIRST_STONE),
                                     y |-> STONE_ON_GROUND])) >>

\* ------------------------------------------------------------ the obstacle list
\* The session of sections 3 and 4.2: the character, the backgrounds, the
\* active obstacle list and the timeline cursor (the rightmost x already
\* populated with obstacles), with the handles the generator builds from.
\* The minimum look-ahead is a configuration constant whose value neither
\* the specification nor src/ gives: the session is explored with the value
\* below, and nothing stated of it rests on that value.
MINIMUM_LOOK_AHEAD == 1000

Layouts == {"stone_and_platform", "platform_and_stone"}

Segment(layout, stone, sprite_sheet, offset_x) ==
    IF layout = "stone_and_platform"
    THEN stone_and_platform(stone, sprite_sheet, offset_x)
    ELSE platform_and_stone(stone, sprite_sheet, offset_x)

\* The rightmost x-extent of a list of obstacles.
RECURSIVE Rightmost(_)
Rightmost(obstacles) ==
    IF obstacles = <<>> THEN 0
    ELSE LET r == Obstacle_right(Head(obstacles))
             rest == Rightmost(Tail(obstacles))
         IN  IF Tail(obstacles) = <<>> \/ r > rest THEN r ELSE rest

\* The session at its start: the stone-then-platform layout at x = 0.
SegmentWalk_new(assets) ==
    LET starting == stone_and_platform(assets.stone, assets.tile, 0)
    IN  [boy            |-> RedHatBoy_new(assets.cell),
         backgrounds    |-> << Image_new(assets.background, [x |-> 0, y |-> 0]),
                               Image_new(assets.background,
                                         [x |-> I16(assets.background.w), y |-> 0]) >>,
         obstacles      |-> starting,
         timeline       |-> Rightmost(starting),
         stone          |-> assets.stone,
         obstacle_sheet |-> assets.tile]

\* What one check_intersection saw and sent: the boxes of the obstacle that
\* overlap the character's bounding box, the character before and after.
ObstacleCheck(o, before, events, after) ==
    LET boxes == IF o.kind = "Barrier" THEN <<Image_bounding_box(o.image)>>
                 ELSE o.bounding_boxes
        rect  == RedHatBoy_bounding_box(before)
    IN  [kind     |-> o.kind,
         overlaps |-> {i \in 1..Len(boxes) : Rect_intersects(boxes[i], rect)},
         tops     |-> [i \in 1..Len(boxes) |-> boxes[i].y],
         top      |-> IF o.kind = "Barrier" THEN o.image.position.y ELSE o.position.y,
         events   |-> events,
         before   |-> before.state_machine,
         after    |-> after.state_machine]

\* Obstacle movement and collision: every obstacle of the list, in order, is
\* moved by the scroll velocity and then checked against the character.
RECURSIVE MoveAndCheck(_, _, _)
MoveAndCheck(obstacles, velocity, boy) ==
    IF obstacles = <<>> THEN [obstacles |-> <<>>, boy |-> boy, checks |-> <<>>]
    ELSE LET o == Obstacle_move_horizontally(Head(obstacles), velocity)
             events == Obstacle_check_intersection(o, boy)
             boy1 == RedHatBoy_send_all(boy, events)
             rest == MoveAndCheck(Tail(obstacles), velocity, boy1)
         IN  [obstacles |-> <<o>> \o rest.obstacles,
              boy       |-> rest.boy,
              checks    |-> <<ObstacleCheck(o, boy, events, boy1)>> \o rest.checks]

\* Culling that drops an obstacle only once all of it is past the boundary by
\* a whole step (right() < -RUNNING_SPEED).
Cull_late(obstacles) ==
    SelectSeq(obstacles, LAMBDA o : Obstacle_right(o) >= -RUNNING_SPEED)

\* Obstacle culling: drop once right() <= 0.
Cull(obstacles) == SelectSeq(obstacles, LAMBDA o : Obstacle_right(o) > 0)

\* The cursor after one tick: advanced to the new rightmost extent when a
\* segment was appended, else decremented by the scroll velocity.
Timeline(walk, velocity, added) ==
    IF added # <<>> THEN Rightmost(added) ELSE I16(walk.timeline + velocity)

\* One simulation step of the session: character update, obstacle movement and
\* collision, culling, segment regeneration.  layout is the random choice
\* between the two canned layouts.
SegmentWalk_update(walk, keystate, layout) ==
    LET boy1     == RedHatBoy_send_all(walk.boy, Walk_key_events(keystate))
        velocity == Walk_velocity([boy |-> boy1])
        scenery  == Walk_backgrounds(walk.backgrounds, velocity)
        moved    == MoveAndCheck(walk.obstacles, velocity, boy1)
        kept     == Cull(moved.obstacles)
        added    == IF walk.timeline < MINIMUM_LOOK_AHEAD
                    THEN Segment(layout, walk.stone, walk.obstacle_sheet, walk.timeline)
                    ELSE <<>>
    IN  [walk     |-> [walk EXCEPT !.boy = moved.boy,
                                   !.backgrounds = scenery,
                                   !.obstacles = kept \o added,
                                   !.timeline = Timeline(walk, velocity, added)],
         velocity |-> velocity,
         moved    |-> moved.obstacles,
         checks   |-> moved.checks,
         added    |-> added]

\* The draw pass of the session: the backgrounds, the character, then every
\* obstacle of the active list.
RECURSIVE DrawAll(_)
DrawAll(obstacles) ==
    IF obstacles = <<>> THEN <<>>
    ELSE Obstacle_draw(Head(obstacles)) \o DrawAll(Tail(obstacles))

SegmentWalk_draw(walk) ==
    << [op |-> "clear", at |-> Rect_new_from_x_y(0, 0, 600, CANVAS_HEIGHT)],
       [op |-> "background", at |-> walk.backgrounds[1].position],
       [op |-> "background", at |-> walk.backgrounds[2].position],
       [op |-> "boy", at |-> RedHatBoy_destination_box(walk.boy)] >>
    \o DrawAll(walk.obstacles)

\* ------------------------------------------------------------ f32, GameLoop
\* A time is a whole number of milliseconds and a fraction in units of 2^-18 ms,
\* the grid on which FRAME_SIZE and every whole millisecond lie:
\* [ms |-> whole milliseconds, frac |-> units, 0 .. Unit - 1].
Unit == 2^18

Mantissa == 2^24

\* const FRAME_SIZE: f32 = 1.0 / 60.0 * 1000.0, which is 16.666667938232422 ms:
\* this many units.
FRAME_SIZE == 4369067

Ms(n) == [ms |-> n, frac |-> 0]

Units(n) == [ms |-> n \div Unit, frac |-> n % Unit]

Less(a, b) == a.ms < b.ms \/ (a.ms = b.ms /\ a.frac < b.frac)

Plus(a, b) ==
    IF a.frac + b.frac >= Unit
    THEN [ms |-> a.ms + b.ms + 1, frac |-> a.frac + b.frac - Unit]
    ELSE [ms |-> a.ms + b.ms, frac |-> a.frac + b.frac]

\* a - b for b not greater than a.
Minus(a, b) ==
    IF a.frac < b.frac
    THEN [ms |-> a.ms - b.ms - 1, frac |-> a.frac + Unit - b.frac]
    ELSE [ms |-> a.ms - b.ms, frac |-> a.frac - b.frac]

\* The distance, in units, between the f32 values around a time of ms whole
\* milliseconds: an f32 has 24 significant bits, so 1 unit below 64 ms (2^24
\* units) and twice as much with every doubling.
RECURSIVE Ulp(_)
Ulp(ms) == IF ms < Mantissa \div Unit THEN 1 ELSE 2 * Ulp(ms \div 2)

\* The nearest f32 to a time, ties to the even one.
F32(t) ==
    LET u == Ulp(t.ms)
    IN  IF u <= Unit
        THEN LET q == t.frac \div u
                 r == t.frac % u
                 odd == IF u = Unit THEN t.ms % 2 = 1 ELSE q % 2 = 1
                 f == IF 2 * r > u \/ (2 * r = u /\ odd) THEN (q + 1) * u ELSE q * u
             IN  IF f = Unit THEN Ms(t.ms + 1) ELSE [ms |-> t.ms, frac |-> f]
        ELSE LET w == u \div Unit
                 q == t.ms \div w
                 r == t.ms % w
                 up == \/ 2 * r > w
                       \/ 2 * r = w /\ t.frac > 0
                       \/ 2 * r = w /\ t.frac = 0 /\ q % 2 = 1
             IN  Ms(IF up THEN (q + 1) * w ELSE q * w)

\* The accumulation that measures every callback from time 0.
Accumulated_absolute(accumulated_delta, perf, last_frame) ==
    F32(Plus(accumulated_delta, F32(Ms(perf))))

\* accumulated_delta += (perf - last_frame) as f32, perf and last_frame in ms
Accumulated(accumulated_delta, perf, last_frame) ==
    F32(Plus(accumulated_delta, F32(Ms(perf - last_frame))))

\* The test of the catch-up loop.
Behind(accumulated_delta) == Less(Units(FRAME_SIZE), accumulated_delta)

\* accumulated_delta -= FRAME_SIZE
Subtracted(accumulated_delta) == F32(Minus(accumulated_delta, Units(FRAME_SIZE)))

\* The catch-up loop run to its end: the number of update calls it makes.
RECURSIVE CatchUp(_)
CatchUp(accumulated_delta) ==
    IF Behind(accumulated_delta)
    THEN 1 + CatchUp(Subtracted(accumulated_delta))
    ELSE 0

\* KeyState and process_input: the queue is drained front to back.
KeyDownEv(code) == [kind |-> "KeyDown", code |-> code]

KeyUpEv(code) == [kind |-> "KeyUp", code |-> code]

set_pressed(state, code) == state \cup {code}

set_released(state, code) == state \ {code}

\* The drain that receives one event and leaves the rest (an if in place of
\* the loop).
process_input_once(state, receiver) ==
    IF receiver = <<>> THEN state
    ELSE LET evt == Head(receiver)
         IN  IF evt.kind = "KeyUp"
             THEN set_released(state, evt.code)
             ELSE set_pressed(state, evt.code)

RECURSIVE process_input(_, _)
process_input(state, receiver) ==
    IF receiver = <<>> THEN state
    ELSE LET evt == Head(receiver)
         IN  process_input(IF evt.kind = "KeyUp"
                           THEN set_released(state, evt.code)
                           ELSE set_pressed(state, evt.code),
                           Tail(receiver))

\* ------------------------------------------------------------ state
VARIABLES
    machine,    \* RedHatBoy.state_machine
    prev,       \* the machine value the last event was applied to
    event,      \* the last event applied (kind "None" before the first)
    fall,       \* Update ticks since velocity.y was last zeroed, -1 after a Jump
    slide,      \* [ticks, vx]: Updates since Sliding was entered, velocity.x at entry
    ran,        \* Update ticks since the Run that left Idle while only Run and
                \* Update events were applied; -1 before that Run, -2 otherwise
    down,       \* Update ticks applied in Falling since the KnockOut, -1 before it
    game,       \* the session: WalkTheDog::Loading or WalkTheDog::Loaded(walk)
    ret,        \* what the last operation returned if it was initialize, else "none"
    check,      \* the platform and stone checks of the last update (NoCheck if none)
    pass,       \* the draw calls of the last operation if it was a draw pass
    loads,      \* per file, the outcome the initialize polled last has got; with a
                \* Loaded session held, of the last initialize that returned one
    futures,    \* per initialize that waits for a file, the outcomes it has got
    pc,         \* where GameLoop::start and the raf closure are
    started,    \* what GameLoop::start returned ("none" before it returns)
    scheduled,  \* requestAnimationFrame requests that have not fired yet
    perf,       \* the timestamp of the running (or last) callback, in ms
    game_loop,  \* GameLoop { last_frame (ms), accumulated_delta (a time) }
    keystate,   \* KeyState.pressed_keys, as the set of its codes
    queue,      \* the key events sent on the channel and not yet received
    enqueued,   \* number of key events the two handlers have run for
    latest,     \* the keys whose last event sent is a key-down; the events the
                \* drain just made received (none from the next phase on)
    stamps,     \* the timestamps of the callbacks so far
    steps,      \* per callback, the number of update calls it made
    trace,      \* the phases the running (or last) callback has gone through
    draws,      \* number of draw passes so far
    snapshot,   \* the held keys as the drain of the running callback left them
    shadow,     \* the session as the steps of the running callback leave it if
                \* each of them reads the held keys its drain left
    loop0,      \* game_loop as it was when the running callback began
    seg,        \* the session with the obstacle list and the timeline cursor
    segtick,    \* what the last simulation step of seg did (NoTick before it)
    segpass,    \* the draw calls of the last operation on seg if it was a draw pass
    scrolled    \* how far the world of seg has scrolled, in px

charVars == <<machine, prev, event, fall, slide, ran, down>>

gameVars == <<game, ret, check, pass, loads, futures>>

loopVars == <<pc, started, scheduled, perf, game_loop, keystate, queue, enqueued,
             latest>>

histVars == <<stamps, steps, trace, draws, snapshot, shadow, loop0>>

segVars == <<seg, segtick, segpass, scrolled>>

\* What the operations of the session and of the loop leave alone.
soloVars == <<charVars, segVars>>

vars == <<charVars, segVars, gameVars, loopVars, histVars>>

NoTick == [checks |-> <<>>, culled |-> <<>>, added |-> <<>>, velocity |-> 0]

NoSlide == [ticks |-> -1, vx |-> 0]

\* RedHatBoy::new
Init ==
    /\ machine = Idle_new
    /\ prev = Idle_new
    /\ event = Ev("None")
    /\ fall = 0
    /\ slide = NoSlide
    /\ ran = -1
    /\ down = -1
    /\ game = Loading
    /\ ret = "none"
    /\ check = NoCheck
    /\ pass = <<>>
    /\ pc = "start"
    /\ started = "none"
    /\ scheduled = 0
    /\ perf = 0
    /\ game_loop = [last_frame |-> 0, accumulated_delta |-> Ms(0)]
    /\ keystate = {}
    /\ queue = <<>>
    /\ enqueued = 0
    /\ latest = [down |-> {}, drained |-> <<>>]
    /\ stamps = <<>>
    /\ steps = <<>>
    /\ trace = <<>>
    /\ draws = 0
    /\ snapshot = {}
    /\ shadow = Loading
    /\ loop0 = [last_frame |-> 0, accumulated_delta |-> Ms(0)]
    /\ loads = NoLoads
    /\ futures = <<>>
    /\ seg = SegmentWalk_new(CHOOSE a \in Assets : TRUE)
    /\ segtick = NoTick
    /\ segpass = <<>>
    /\ scrolled = 0

\* The history counters fall, slide, ran and down after one applied event (sm the
\* machine value before, res the one after).
NextFall(sm, ev, res) ==
    CASE ev.kind = "Land" /\ sm.state \in {"Jumping", "Running", "Sliding", "KnockedOut"} -> 0
      [] ev.kind = "Jump" /\ sm.state = "Running" -> -1
      [] ev.kind = "Update" /\ sm.state = "Jumping" /\ res.state = "Running" -> 0
      [] ev.kind = "Update" /\ fall >= 0 -> fall + 1
      [] OTHER -> fall

NextSlide(sm, ev, res) ==
    CASE ev.kind = "Slide" /\ sm.state = "Running" -> [ticks |-> 0, vx |-> sm.context.velocity.x]
      [] ev.kind = "Update" /\ sm.state = "Sliding" -> [slide EXCEPT !.ticks = slide.ticks + 1]
      [] sm.state = "Sliding" /\ res.state = "Sliding" -> slide
      [] OTHER -> NoSlide

NextRan(sm, ev) ==
    CASE ev.kind \notin {"Run", "Update"} -> -2
      [] ev.kind = "Run" /\ sm.state = "Idle" /\ ran = -1 -> 0
      [] ev.kind = "Update" /\ ran >= 0 -> ran + 1
      [] OTHER -> ran

NextDown(sm, ev) ==
    CASE ev.kind = "KnockOut" /\ sm.state \in {"Running", "Jumping", "Sliding"} -> 0
      [] ev.kind = "Update" /\ sm.state = "Falling" -> down + 1
      [] OTHER -> down

\* RedHatBoy::{run_right, slide, jump, knock_out, land_on, update}:
\* self.state_machine = self.state_machine.transition(event)
Apply(ev) ==
    LET res == transition(machine, ev)
    IN  /\ machine' = res
        /\ prev' = machine
        /\ event' = ev
        /\ fall' = NextFall(machine, ev, res)
        /\ slide' = NextSlide(machine, ev, res)
        /\ ran' = NextRan(machine, ev)
        /\ down' = NextDown(machine, ev)
        /\ UNCHANGED <<segVars, gameVars, loopVars, histVars>>

Run == Apply(Ev("Run"))

Slide == Apply(Ev("Slide"))

Jump == Apply(Ev("Jump"))

KnockOut == Apply(Ev("KnockOut"))

Land == \E h \in LandHeights : Apply(Land_ev(h))

Update ==
    /\ machine.context.velocity.y < MaxVelY
    /\ Apply(Ev("Update"))

Next == Run \/ Slide \/ Jump \/ KnockOut \/ Land \/ Update

Spec == Init /\ [][Next]_vars

\* The scenario of a session in which only ArrowRight is ever held: Run
\* events and Update ticks in any interleaving.
NextRun == Run \/ Update

SpecRun == Init /\ [][NextRun]_vars

\* The scenario of a session whose character only runs and jumps on the
\* floor: Run and Jump events and Update ticks.  The game loop issues an
\* Update at every simulation step, so an Update that can be applied is
\* applied sooner or later.
NextJump == Run \/ Jump \/ Update

SpecJump == Init /\ [][NextJump]_vars /\ WF_vars(Update)

\* The scenario of a session left alone: Update ticks and nothing else, one
\* per simulation step, for up to MaxTicks steps.
MaxTicks == 32300

Tick ==
    /\ fall < MaxTicks
    /\ Apply(Ev("Update"))

SpecTicks == Init /\ [][Tick]_vars

\* ------------------------------------------------------------ the Game trait
\* The three operations of `impl Game for WalkTheDog`, callable in any order.
\* initialize holds the session borrowed while it waits for its files: draw
\* and initialize can be called meanwhile, update (which takes &mut self) only
\* on a Loaded session that an earlier initialize has returned.
\* update is explored while the character's velocity.y is below MaxVelY and the
\* platform has scrolled less than MaxScroll px past the left edge.
MaxScroll == 240

\* The outcomes the next await of an initialize that awaited the files of
\* fetch can have.
Answers(fetch) ==
    {o \in Outcomes :
        /\ o \in {"malformed", "null"} => Awaited(fetch) + 1 \in {1, 5}
        /\ o # "ok" =>
              Cardinality({i \in 1..Len(AssetFiles) : fetch[i] \notin {"ok", "none"}})
                 < MaxFailures}

\* fetch with the outcome of the next file.
Answered(fetch, o) == [fetch EXCEPT ![Awaited(fetch) + 1] = o]

\* The initializations that wait for a file at one time are explored up to
\* MaxFutures.
MaxFutures == 2

\* s without its i-th element.
Without(s, i) == SubSeq(s, 1, i - 1) \o SubSeq(s, i + 1, Len(s))

\* The initializations in flight are separate futures with no order among
\* them: futures lists them by the files they have awaited, the furthest
\* first, and among equals the one that read null first.
Rank(fetch) ==
    2 * Awaited(fetch)
      + IF \E i \in 1..Len(AssetFiles) : fetch[i] = "null" THEN 1 ELSE 0

\* s with its i-th element replaced by fetch, put at its place in the list.
Advanced(s, i, fetch) ==
    LET rest == Without(s, i)
        k == Cardinality({j \in 1..Len(rest) : Rank(rest[j]) >= Rank(fetch)})
    IN  SubSeq(rest, 1, k) \o <<fetch>> \o SubSeq(rest, k + 1, Len(rest))

\* game.initialize(): the call runs to the first await (Pending), or to the
\* error of a Loaded session, which awaits nothing.  initialize takes &self:
\* it can be called while earlier calls still wait, and each call returns
\* its own session.
Initialize ==
    /\ pc = "start"
    /\ \E assets \in Assets :
          LET r == WalkTheDog_initialize(game, NoLoads, assets)
          IN  /\ r.result = "Pending" => Len(futures) < MaxFutures
              /\ game' = r.game
              /\ ret' = r.result
              /\ futures' = IF r.result = "Pending" THEN Append(futures, NoLoads)
                            ELSE futures
    /\ loads' = IF game.tag = "Loaded" THEN loads ELSE NoLoads
    /\ check' = NoCheck
    /\ pass' = <<>>
    /\ UNCHANGED <<soloVars, loopVars, histVars>>

\* The file one of the waiting initializations waits for is answered and it
\* runs to its next await or to its end: the caller holds the session it
\* returns, or the one it had if the initialize failed.  The session that
\* initialize was called on is Loading (a Loaded one awaits nothing) and
\* stays as it is.
InitializeAwait ==
    /\ pc = "start"
    /\ \E i \in 1..Len(futures) :
          \E o \in Answers(futures[i]), assets \in Assets :
             LET fetch == Answered(futures[i], o)
                 r == WalkTheDog_initialize(Loading, fetch, assets)
             IN  /\ ret' = r.result
                 /\ loads' = IF game.tag = "Loaded" /\ r.result # "Ok" THEN loads ELSE fetch
                 /\ game' = IF r.result = "Ok" THEN r.game ELSE game
                 /\ futures' = IF r.result = "Pending"
                               THEN Advanced(futures, i, fetch)
                               ELSE Without(futures, i)
    /\ check' = NoCheck
    /\ pass' = <<>>
    /\ UNCHANGED <<soloVars, loopVars, histVars>>

\* game.update(&keystate) on the session held in game, with the record of
\* its collision checks.
UpdateGame(held) ==
    IF game.tag = "Loaded"
    THEN \E r \in {Walk_update(game.walk, held)} :
            /\ game' = Loaded(r.walk)
            /\ check' = Walk_check(game.walk.boy, r)
    ELSE /\ game' = WalkTheDog_update(game, held)
         /\ check' = NoCheck

\* update takes &mut self: it cannot be called on the Loading session that an
\* initialize in flight borrows, and it can be called on the Loaded session
\* that an earlier initialize returned while others still wait.  With an
\* initialize in flight, steps are explored while the platform has scrolled
\* less than MaxWaiting px.
MaxWaiting == 4

GameUpdate ==
    \E held \in SUBSET Codes :
        /\ futures # <<>> => game.tag = "Loaded"
        /\ game.tag = "Loaded" =>
              /\ velocity_y(game.walk.boy) < MaxVelY
              /\ game.walk.platform.position.x + MaxScroll > 0
              /\ futures # <<>> =>
                    game.walk.platform.position.x + MaxWaiting > FIRST_PLATFORM
        /\ UpdateGame(held)
        /\ ret' = "none"
        /\ pass' = <<>>
        /\ UNCHANGED <<loads, futures, soloVars, loopVars, histVars>>

GameDraw ==
    /\ pass' = WalkTheDog_draw(game)
    /\ ret' = "none"
    /\ UNCHANGED <<game, check, loads, futures, soloVars, loopVars, histVars>>

NextGame == Initialize \/ InitializeAwait \/ GameUpdate \/ GameDraw

SpecGame == Init /\ [][NextGame]_vars

\* ------------------------------------------------------------ GameLoop
\* Callbacks are explored up to MaxCallbacks and up to the timestamp MaxTime
\* (ms), key events up to MaxKeyEvents.
MaxCallbacks == 4

MaxTime == 400

MaxKeyEvents == 2

\* The time from one callback to the next, in ms (the first from browser::now()
\* in start, which is taken as 0).
Deltas == {0, 8, 34, 366, 400}

\* The time a stalled page resumes after, in ms: two frames, and 2^29 + 64 ms
\* and 2^30 ms (six and twelve days).
Stalls == {34, 2^29 + 64, 2^30}

\* The turns of the catch-up loop of one callback that are explored.
MaxTurns == 25

\* What browser::canvas() in prepare_input, browser::now(),
\* browser::context() and the first request_animation_frame of start give:
\* all their value, or the one named its error.
BrowserCalls == {"ok", "canvas", "now", "context", "request"}

\* start after a poll of initialize gave r: it waits for the next file; or
\* it returns the error of initialize (a panic ends it); or, with the session
\* Loaded, it goes on to the GameLoop value, the renderer, the closure and the
\* first request_animation_frame, and returns the error of the first of the
\* browser calls that fails.  An error before the closure is made drops the
\* receiver with the events it holds (pc "ended").  The closure owns the
\* session and the receiver and holds a clone of the Rc it is stored in, so
\* when the first request fails start returns its error and the closure,
\* the Loaded session and the receiver live on (pc "orphaned").
StartGoesOn(r, browser) ==
    /\ game' = r.game
    /\ ret' = r.result
    /\ CASE r.result = "Pending" ->
              /\ pc' = "loading"
              /\ UNCHANGED <<started, scheduled, queue>>
         [] r.result = "Ok" /\ browser = "ok" ->
              /\ pc' = "idle"
              /\ started' = "Ok"
              /\ scheduled' = 1
              /\ UNCHANGED queue
         [] r.result = "Ok" /\ browser = "request" ->
              /\ pc' = "orphaned"
              /\ started' = "Err"
              /\ scheduled' = 0
              /\ UNCHANGED queue
         [] OTHER ->
              /\ pc' = "ended"
              /\ started' = IF r.result = "Panic" THEN "Panic" ELSE "Err"
              /\ scheduled' = 0
              /\ queue' = <<>>

\* GameLoop::start up to the first await of initialize: prepare_input makes
\* the channel and installs the two key handlers.  Without a canvas it
\* panics in unwrap before it installs a handler (pc "panicked").
Start ==
    /\ pc = "start"
    /\ \E assets \in Assets, browser \in BrowserCalls :
          IF browser = "canvas"
          THEN /\ pc' = "panicked"
               /\ started' = "Panic"
               /\ UNCHANGED <<game, ret, loads, scheduled, queue>>
          ELSE /\ StartGoesOn(WalkTheDog_initialize(game, NoLoads, assets), browser)
               /\ loads' = NoLoads
    /\ game_loop' = [last_frame |-> 0, accumulated_delta |-> Ms(0)]
    /\ keystate' = {}
    /\ UNCHANGED <<soloVars, check, pass, futures, perf, enqueued, latest, histVars>>

\* The file start waits for is answered: initialize runs to its next await or
\* to its end, and start with it.
StartAwait ==
    /\ pc = "loading"
    /\ \E o \in Answers(loads), assets \in Assets, browser \in BrowserCalls \ {"canvas"} :
          /\ StartGoesOn(WalkTheDog_initialize(game, Answered(loads, o), assets), browser)
          /\ loads' = Answered(loads, o)
    /\ UNCHANGED <<soloVars, check, pass, futures, perf, game_loop, keystate, enqueued,
                   latest, histVars>>

\* The keys the key events of the loop are explored for: one that acts on an
\* Idle character and one that acts on a Running one.
Keys == {"ArrowRight", "Space"}

\* onkeydown / onkeyup, installed by prepare_input: start_send on the
\* unbounded channel, with its result ignored.  Once start has ended and
\* dropped the receiver the event is dropped; a receiver that lives on in
\* the orphaned closure takes the event, and nothing receives it.
KeyDown ==
    /\ pc \notin {"start", "panicked"}
    /\ enqueued < MaxKeyEvents
    /\ \E code \in Keys :
          IF pc = "ended" THEN UNCHANGED <<queue, latest>>
          ELSE /\ queue' = Append(queue, KeyDownEv(code))
               /\ latest' = [latest EXCEPT !.down = @ \cup {code}]
    /\ enqueued' = enqueued + 1
    /\ UNCHANGED <<soloVars, gameVars, pc, started, scheduled, perf, game_loop,
                   keystate, histVars>>

KeyUp ==
    /\ pc \notin {"start", "panicked"}
    /\ enqueued < MaxKeyEvents
    /\ \E code \in Keys :
          IF pc = "ended" THEN UNCHANGED <<queue, latest>>
          ELSE /\ queue' = Append(queue, KeyUpEv(code))
               /\ latest' = [latest EXCEPT !.down = @ \ {code}]
    /\ enqueued' = enqueued + 1
    /\ UNCHANGED <<soloVars, gameVars, pc, started, scheduled, perf, game_loop,
                   keystate, histVars>>

\* The browser fires the scheduled callback with the timestamp perf, d ms
\* after the callback before it.
Fire(d) ==
    /\ pc = "idle"
    /\ scheduled > 0
    /\ Len(stamps) < MaxCallbacks
    /\ perf' = game_loop.last_frame + d
    /\ scheduled' = scheduled - 1
    /\ pc' = "input"
    /\ stamps' = Append(stamps, perf')
    /\ steps' = Append(steps, 0)
    /\ trace' = <<>>
    /\ shadow' = game
    /\ loop0' = game_loop
    /\ UNCHANGED <<soloVars, gameVars, started, game_loop, keystate, queue, enqueued, latest,
                   draws, snapshot>>

Callback == \E d \in Deltas : game_loop.last_frame + d <= MaxTime /\ Fire(d)

\* The callback that follows a stall: the browser runs no callback while the
\* page is hidden or the machine is suspended, and fires the next one with the
\* timestamp of that time.
Resume == \E d \in Stalls : Fire(d)

\* process_input(&mut keystate, &mut keyevent_receiver)
ProcessInput ==
    /\ pc = "input"
    /\ keystate' = process_input(keystate, queue)
    /\ queue' = <<>>
    /\ snapshot' = keystate'
    /\ latest' = [latest EXCEPT !.drained = queue]
    /\ trace' = Append(trace, "input")
    /\ pc' = "accumulate"
    /\ UNCHANGED <<soloVars, gameVars, started, scheduled, perf, game_loop, enqueued,
                   stamps, steps, draws, shadow, loop0>>

\* game_loop.accumulated_delta += (perf - game_loop.last_frame) as f32
Accumulate ==
    /\ pc = "accumulate"
    /\ game_loop' = [game_loop EXCEPT !.accumulated_delta =
                        Accumulated(@, perf, game_loop.last_frame)]
    /\ trace' = Append(trace, "accumulate")
    /\ pc' = "while"
    /\ latest' = [latest EXCEPT !.drained = <<>>]
    /\ UNCHANGED <<soloVars, gameVars, started, scheduled, perf, keystate, queue,
                   enqueued, stamps, steps, draws, snapshot, shadow, loop0>>

\* The loop turn that receives the pending key events before it updates.
Step_draining ==
    /\ pc = "while"
    /\ Behind(game_loop.accumulated_delta)
    /\ steps[Len(steps)] < MaxTurns
    /\ keystate' = process_input(keystate, queue)
    /\ queue' = <<>>
    /\ UpdateGame(keystate')
    /\ ret' = "none"
    /\ pass' = <<>>
    /\ game_loop' = [game_loop EXCEPT !.accumulated_delta = Subtracted(@)]
    /\ steps' = [steps EXCEPT ![Len(steps)] = @ + 1]
    /\ trace' = Append(trace, "update")
    /\ shadow' = WalkTheDog_update(shadow, snapshot)
    /\ UNCHANGED <<soloVars, loads, futures, pc, started, scheduled, perf, enqueued, latest, stamps,
                   draws, snapshot, loop0>>

\* One turn of the catch-up loop: game.update(&keystate) and the subtraction.
Step ==
    /\ pc = "while"
    /\ Behind(game_loop.accumulated_delta)
    /\ steps[Len(steps)] < MaxTurns
    /\ UpdateGame(keystate)
    /\ ret' = "none"
    /\ pass' = <<>>
    /\ game_loop' = [game_loop EXCEPT !.accumulated_delta = Subtracted(@)]
    /\ steps' = [steps EXCEPT ![Len(steps)] = @ + 1]
    /\ trace' = Append(trace, "update")
    /\ shadow' = WalkTheDog_update(shadow, snapshot)
    /\ UNCHANGED <<soloVars, loads, futures, pc, started, scheduled, perf, keystate, queue,
                   enqueued, latest, stamps, draws, snapshot, loop0>>

\* The loop exit that goes on to draw only when a step ran.
SetLastFrame_skipping ==
    /\ pc = "while"
    /\ ~Behind(game_loop.accumulated_delta)
    /\ game_loop' = [game_loop EXCEPT !.last_frame = perf]
    /\ trace' = Append(trace, "last_frame")
    /\ pc' = IF steps[Len(steps)] = 0 THEN "reschedule" ELSE "draw"
    /\ UNCHANGED <<soloVars, gameVars, started, scheduled, perf, keystate, queue,
                   enqueued, latest, stamps, steps, draws, snapshot, shadow, loop0>>

\* The loop is left: game_loop.last_frame = perf
SetLastFrame ==
    /\ pc = "while"
    /\ ~Behind(game_loop.accumulated_delta)
    /\ game_loop' = [game_loop EXCEPT !.last_frame = perf]
    /\ trace' = Append(trace, "last_frame")
    /\ pc' = "draw"
    /\ UNCHANGED <<soloVars, gameVars, started, scheduled, perf, keystate, queue,
                   enqueued, latest, stamps, steps, draws, snapshot, shadow, loop0>>

\* game.draw(&renderer)
Draw ==
    /\ pc = "draw"
    /\ pass' = WalkTheDog_draw(game)
    /\ ret' = "none"
    /\ draws' = draws + 1
    /\ trace' = Append(trace, "draw")
    /\ pc' = "reschedule"
    /\ UNCHANGED <<soloVars, game, check, loads, futures, started, scheduled, perf, game_loop,
                   keystate, queue, enqueued, latest, stamps, steps, snapshot, shadow, loop0>>

\* browser::request_animation_frame(f.borrow().as_ref().unwrap()); the request
\* can fail like the first one in start, and its Result is dropped: the
\* callback returns either way, and after a failed request no callback is
\* scheduled any more, while the closure, the session and the receiver stay
\* alive.
Reschedule ==
    /\ pc = "reschedule"
    /\ \E browser \in {"ok", "request"} :
          scheduled' = IF browser = "ok" THEN scheduled + 1 ELSE scheduled
    /\ trace' = Append(trace, "reschedule")
    /\ pc' = "idle"
    /\ UNCHANGED <<soloVars, gameVars, started, perf, game_loop, keystate, queue,
                   enqueued, latest, stamps, steps, draws, snapshot, shadow, loop0>>

NextLoop ==
    \/ Start
    \/ StartAwait
    \/ KeyDown
    \/ KeyUp
    \/ Callback
    \/ ProcessInput
    \/ Accumulate
    \/ Step
    \/ SetLastFrame
    \/ Draw
    \/ Reschedule

SpecLoop == Init /\ [][NextLoop]_vars

\* The session of a page that is left alone and stalls: no key events, and
\* callbacks that follow stalls.
NextStall ==
    \/ Start
    \/ StartAwait
    \/ Resume
    \/ ProcessInput
    \/ Accumulate
    \/ Step
    \/ SetLastFrame
    \/ Draw
    \/ Reschedule

SpecStall == Init /\ [][NextStall]_vars

\* ------------------------------------------------------------ the session with obstacles
\* Simulation steps and draw passes of the session with the obstacle list, in
\* any order.  Steps are explored while the character's velocity.y is below
\* MaxVelY and the world has scrolled less than MaxDistance px.
MaxDistance == 760

\* The keys held during a step of this session: running and jumping.
SegmentKeys == SUBSET {"ArrowRight", "Space"}

\* The layout drawn at random matters only in a step that appends a segment.
LayoutChoices(walk) ==
    IF walk.timeline < MINIMUM_LOOK_AHEAD THEN Layouts ELSE {"stone_and_platform"}

\* What the last step did: its checks, the obstacles it dropped and appended,
\* and the scroll velocity.
SegmentTick(walk, r) ==
    [checks   |-> r.checks,
     culled   |-> SelectSeq(r.moved, LAMBDA o : \A i \in 1..Len(r.walk.obstacles) :
                                                   r.walk.obstacles[i] # o),
     added    |-> r.added,
     velocity |-> r.velocity]

SegmentUpdate ==
    /\ velocity_y(seg.boy) < MaxVelY
    /\ scrolled < MaxDistance
    /\ \E held \in SegmentKeys, layout \in LayoutChoices(seg) :
          \E r \in {SegmentWalk_update(seg, held, layout)} :
             /\ seg' = r.walk
             /\ segtick' = SegmentTick(seg, r)
             /\ scrolled' = scrolled - r.velocity
    /\ segpass' = <<>>
    /\ UNCHANGED <<charVars, gameVars, loopVars, histVars>>

SegmentDraw ==
    /\ segpass' = SegmentWalk_draw(seg)
    /\ UNCHANGED <<seg, segtick, scrolled, charVars, gameVars, loopVars, histVars>>

NextSegment == SegmentUpdate \/ SegmentDraw

SpecSegment == Init /\ [][NextSegment]_vars

\* ------------------------------------------------------------ properties
ctx == machine.context

pctx == prev.context

\* The (state, event) pairs of the transition table of section 4.1.
Table ==
    {<<"Idle", "Run">>, <<"Running", "Slide">>, <<"Running", "Jump">>}
    \cup ({"Running", "Jumping", "Sliding"} \X {"KnockOut"})
    \cup ({"Jumping", "Running", "Sliding", "KnockedOut"} \X {"Land"})
    \cup (States \X {"Update"})

\* The state tags the table allows as the result of a listed pair (the tag
\* after Land is the subject of C6 and left open here).
TableTargets(st, k) ==
    CASE k = "Run" -> {"Running"}
      [] k = "Slide" -> {"Sliding"}
      [] k = "Jump" -> {"Jumping"}
      [] k = "KnockOut" -> {"Falling"}
      [] k = "Land" -> States
      [] k = "Update" /\ st \in {"Sliding", "Jumping"} -> {st, "Running"}
      [] k = "Update" /\ st = "Falling" -> {"Falling", "KnockedOut"}
      [] OTHER -> {st}

\* C1: every event applied to every state either is a pair of the table of
\* section 4.1, and then the resulting tag is one the table names for it, or
\* it is not, and then the machine value is exactly the one before (tag,
\* frame, position and velocity).
C1_TransitionTable ==
    event.kind # "None" =>
        IF <<prev.state, event.kind>> \in Table
        THEN machine.state \in TableTargets(prev.state, event.kind)
        ELSE machine = prev

\* An unlisted pair was applied to a character in mid-jump.
C1_Witness ==
    /\ event.kind = "Jump"
    /\ prev.state = "Jumping"
    /\ pctx.velocity.y > JUMP_SPEED
    /\ machine = prev

\* C2: in a session of Run events and Update ticks only, from the Run that
\* leaves Idle onwards the character is Running with velocity.x equal to one
\* RUNNING_SPEED, and a Run applied while Running changes nothing.
C2_RunOnce ==
    /\ ran >= 0 => (machine.state = "Running" /\ ctx.velocity.x = RUNNING_SPEED)
    /\ (event.kind = "Run" /\ prev.state = "Running") => machine = prev

\* 29 or more Update ticks after the first Run, a further Run was applied.
C2_Witness ==
    /\ ran >= 29
    /\ event.kind = "Run"
    /\ prev.state = "Running"
    /\ machine.state = "Running"
    /\ ctx.velocity.x = RUNNING_SPEED

\* C3: Jump applied to Running gives Jumping with frame 0 and velocity.y =
\* JUMP_SPEED = -25 whatever it was; position and velocity.x are unchanged.
C3_Jump ==
    (event.kind = "Jump" /\ prev.state = "Running") =>
        /\ machine.state = "Jumping"
        /\ ctx.frame = 0
        /\ ctx.velocity.y = -25
        /\ ctx.velocity.x = pctx.velocity.x
        /\ ctx.position = pctx.position

\* A Jump of a Running character that was falling, in mid-animation.
C3_Witness ==
    /\ event.kind = "Jump"
    /\ prev.state = "Running"
    /\ pctx.velocity.y > 0
    /\ pctx.frame > 0
    /\ pctx.position.y < FLOOR
    /\ machine.state = "Jumping"

\* C4: KnockOut applied to Running, Jumping or Sliding gives Falling with
\* frame 0 and velocity.x = 0; position and velocity.y are as before.
C4_KnockOut ==
    (event.kind = "KnockOut" /\ prev.state \in {"Running", "Jumping", "Sliding"}) =>
        /\ machine.state = "Falling"
        /\ ctx.frame = 0
        /\ ctx.velocity.x = 0
        /\ ctx.velocity.y = pctx.velocity.y
        /\ ctx.position = pctx.position

\* A KnockOut of a character that was rising in a jump at running speed.
C4_Witness ==
    /\ event.kind = "KnockOut"
    /\ prev.state = "Jumping"
    /\ pctx.velocity.x = RUNNING_SPEED
    /\ pctx.velocity.y < 0
    /\ pctx.frame > 0
    /\ machine.state = "Falling"

\* C5: whenever Land(height) fires (in Jumping, Running, Sliding or
\* KnockedOut) the result has velocity.y = 0 and position.y = height - 121,
\* whatever the sign of the vertical velocity before.
C5_Land ==
    (event.kind = "Land" /\ prev.state \in {"Jumping", "Running", "Sliding", "KnockedOut"}) =>
        /\ ctx.velocity.y = 0
        /\ ctx.position.y = event.y - 121

\* A Land on a platform top of a character still rising.
C5_Witness ==
    /\ event.kind = "Land"
    /\ event.y = HIGH_PLATFORM
    /\ prev.state = "Jumping"
    /\ pctx.velocity.y < 0
    /\ ctx.velocity.y = 0
    /\ ctx.position.y = HIGH_PLATFORM - PLAYER_HEIGHT

LandStates == {"Jumping", "Running", "Sliding", "KnockedOut"}

\* C6 as stated: Land(height) applied in Jumping, Running, Sliding or
\* KnockedOut leaves the state tag as it was.
C6_LandKeepsTag ==
    (event.kind = "Land" /\ prev.state \in LandStates) => machine.state = prev.state

\* C6 amended: Land(height) applied in Running, Sliding or KnockedOut keeps
\* the tag and the frame; applied in Jumping it ends the jump, giving Running
\* with frame 0.  In all four states position.x and velocity.x are unchanged:
\* apart from that tag and frame, Land only repositions and zeroes velocity.y.
C6_LandTag ==
    (event.kind = "Land" /\ prev.state \in LandStates) =>
        /\ prev.state # "Jumping" => (machine.state = prev.state /\ ctx.frame = pctx.frame)
        /\ prev.state = "Jumping" => (machine.state = "Running" /\ ctx.frame = 0)
        /\ ctx.position.x = pctx.position.x
        /\ ctx.velocity.x = pctx.velocity.x

\* A Land on a platform top in the middle of a jump.
C6_Witness ==
    /\ event.kind = "Land"
    /\ event.y = LOW_PLATFORM
    /\ prev.state = "Jumping"
    /\ pctx.frame > 0
    /\ machine.state = "Running"
    /\ ctx.frame = 0

Min(a, b) == IF a < b THEN a ELSE b

\* Terminal speeds below the velocity bound of the model.
TerminalCandidates == 1 .. (MaxVelY - 1)

\* C7: N Update ticks after velocity.y was 0, with no Land and no Jump since,
\* velocity.y = min(N * GRAVITY, terminal_speed) for a terminal falling speed.
C7_GravityClamped ==
    fall >= 0 =>
        \E terminal_speed \in TerminalCandidates :
            ctx.velocity.y = Min(fall * GRAVITY, terminal_speed)

\* C8: position.y never exceeds FLOOR (479).
C8_FloorLine == ctx.position.y <= 479

\* An Update of a Running character in free fall whose step would cross the
\* floor line.
C8_Witness ==
    /\ event.kind = "Update"
    /\ prev.state = "Running"
    /\ pctx.position.y < FLOOR
    /\ pctx.position.y + pctx.velocity.y + GRAVITY > FLOOR
    /\ ctx.position.y = FLOOR

\* C9: every event applied to a KnockedOut character leaves it KnockedOut;
\* Update leaves frame = FALLING_FRAMES - 1; Land changes position.y and
\* velocity.y only; Run, Slide, Jump and KnockOut change nothing.
C9_KnockedOutTerminal ==
    (prev.state = "KnockedOut" /\ event.kind # "None") =>
        /\ machine.state = "KnockedOut"
        /\ event.kind = "Update" => ctx.frame = FALLING_FRAMES - 1
        /\ event.kind = "Land" =>
               /\ ctx.frame = pctx.frame
               /\ ctx.position.x = pctx.position.x
               /\ ctx.velocity.x = pctx.velocity.x
        /\ event.kind \in {"Run", "Slide", "Jump", "KnockOut"} => machine = prev

\* The Update after the one that ended Falling: the frame counter stood at the
\* ceiling, where every other state wraps to 0.
C9_Witness ==
    /\ prev.state = "KnockedOut"
    /\ pctx.frame = FALLING_FRAMES
    /\ event.kind = "Update"
    /\ machine.state = "KnockedOut"
    /\ ctx.frame = FALLING_FRAMES - 1

\* C10: counted from the Slide that enters Sliding (frame 0), the character is
\* Sliding after each of the first SLIDING_FRAMES - 1 Updates and Running with
\* frame 0 after the SLIDING_FRAMES-th (14th), with the velocity.x it entered
\* the slide with.  (The count is kept across Land and the no-op events, so
\* the runs of Updates only are among the runs covered.)
C10_SlideDuration ==
    /\ machine.state = "Sliding" => (slide.ticks \in 0 .. 13 /\ ctx.velocity.x = slide.vx)
    /\ slide.ticks \in 0 .. 13 => machine.state = "Sliding"
    /\ (prev.state = "Sliding" /\ machine.state = "Running") => slide.ticks = 14
    /\ slide.ticks >= 14 =>
           /\ slide.ticks = SLIDING_FRAMES
           /\ event.kind = "Update"
           /\ machine.state = "Running"
           /\ ctx.frame = 0
           /\ ctx.velocity.x = slide.vx

\* The 14th Update of a slide.
C10_Witness ==
    /\ slide.ticks = SLIDING_FRAMES
    /\ prev.state = "Sliding"
    /\ pctx.frame = SLIDING_FRAMES - 1
    /\ machine.state = "Running"
    /\ ctx.frame = 0
    /\ ctx.velocity.x = RUNNING_SPEED

\* C11: counted from the KnockOut that enters Falling (frame 0), the
\* character is Falling after each of the first FALLING_FRAMES - 1 Updates and
\* KnockedOut from the FALLING_FRAMES-th (29th) on; the step into KnockedOut is
\* the Update at which the frame counter reaches FALLING_FRAMES.  Falling
\* therefore never outlasts 28 Updates.
C11_FallingEnds ==
    /\ machine.state = "Falling" => (down \in 0 .. 28 /\ ctx.frame = down)
    /\ down \in 0 .. 28 => machine.state = "Falling"
    /\ down >= 29 => (down = FALLING_FRAMES /\ machine.state = "KnockedOut")
    /\ machine.state = "KnockedOut" => down = FALLING_FRAMES
    /\ (prev.state = "Falling" /\ machine.state = "KnockedOut") =>
           (event.kind = "Update" /\ ctx.frame = FALLING_FRAMES)

\* The 29th Update after a KnockOut.
C11_Witness ==
    /\ prev.state = "Falling"
    /\ pctx.frame = FALLING_FRAMES - 1
    /\ event.kind = "Update"
    /\ down = FALLING_FRAMES
    /\ machine.state = "KnockedOut"

\* position.y after the physics advance of one Update.
Advanced_y(c) == Min(c.position.y + c.velocity.y + GRAVITY, FLOOR)

\* C12: an Update in Jumping gives Running exactly when position.y after the
\* physics advance of that tick is at the floor line; the Running state then
\* has position.y = FLOOR, velocity.y = 0 and frame 0.  Otherwise the
\* character stays Jumping, above the floor.
C12_JumpLands ==
    (event.kind = "Update" /\ prev.state = "Jumping") =>
        IF Advanced_y(pctx) >= 479
        THEN /\ machine.state = "Running"
             /\ ctx.position.y = 479
             /\ ctx.velocity.y = 0
             /\ ctx.frame = 0
        ELSE /\ machine.state = "Jumping"
             /\ ctx.position.y = Advanced_y(pctx)
             /\ ctx.velocity.y = pctx.velocity.y + GRAVITY

\* The Update of a descending jump whose advance reaches the floor line.
C12_Witness ==
    /\ event.kind = "Update"
    /\ prev.state = "Jumping"
    /\ pctx.position.y < FLOOR
    /\ pctx.velocity.y > 0
    /\ pctx.frame > 0
    /\ machine.state = "Running"
    /\ ctx.position.y = FLOOR

\* The frame-count ceiling of each state.
Ceiling(st) ==
    CASE st = "Idle" -> 29
      [] st = "Running" -> 23
      [] st = "Sliding" -> 14
      [] st = "Jumping" -> 35
      [] OTHER -> 29

\* C13: the frame never exceeds the ceiling of the active state; an Update
\* that keeps the tag (KnockedOut, which pins, aside) adds one to the frame
\* below the ceiling and wraps it to 0 at the ceiling; an event that changes
\* the tag to a state with a smaller ceiling leaves frame 0.
C13_FrameCeiling ==
    /\ ctx.frame \in 0 .. Ceiling(machine.state)
    /\ (event.kind = "Update" /\ prev.state = machine.state /\ machine.state # "KnockedOut") =>
           ctx.frame = IF pctx.frame < Ceiling(prev.state) THEN pctx.frame + 1 ELSE 0
    /\ (event.kind # "None" /\ Ceiling(machine.state) < Ceiling(prev.state)) => ctx.frame = 0

\* A Running character whose frame stood at the ceiling wraps to 0.
C13_Witness ==
    /\ event.kind = "Update"
    /\ prev.state = "Running"
    /\ pctx.frame = RUNNING_FRAMES
    /\ machine.state = "Running"
    /\ ctx.frame = 0

\* ------------------------------------------------------------ game loop
boy == game.walk.boy.state_machine

ScenarioStamps == <<0, 8, 16, 50>>

\* C14 as stated: with last_frame = 0 and an empty accumulator, the callbacks
\* at 0, 8, 16 and 50 ms run 0, 0, 1 and 2 simulation steps.
C14_ScenarioAsStated ==
    (pc = "idle" /\ stamps = ScenarioStamps) => steps = <<0, 0, 1, 2>>

\* C14: with last_frame = 0 and an empty accumulator, the callbacks at 0, 8, 16
\* and 50 ms run 0, 0, 0 and 2 simulation steps (16 ms is less than one frame
\* size); and each simulation step advances the frame counter by exactly 1
\* under the per-state ceiling/wrap rule of C13: a step that keeps the state
\* (the pinned KnockedOut aside) adds one to the frame below the ceiling of
\* that state and wraps it to 0 at the ceiling.
C14_Scenario ==
    /\ (pc = "idle" /\ stamps = ScenarioStamps) => steps = <<0, 0, 0, 2>>
    /\ (check # NoCheck /\ check.before.state = check.after.state
           /\ check.before.state # "KnockedOut")
       => check.after.frame =
             IF check.before.frame < Ceiling(check.before.state)
             THEN check.before.frame + 1 ELSE 0

C14_Witness ==
    /\ pc = "idle"
    /\ stamps = ScenarioStamps
    /\ steps = <<0, 0, 0, 2>>
    /\ game.tag = "Loaded"
    /\ boy.state = "Idle"
    /\ boy.context.frame = 2
    /\ check.before.frame = 1

\* The phases of one callback that runs n simulation steps.
Phases(n) ==
    <<"input", "accumulate">> \o [i \in 1..n |-> "update"]
                              \o <<"last_frame", "draw", "reschedule">>

\* The number of steps the running (or last) callback has made.
StepsNow == steps[Len(steps)]

Drawn == \E i \in 1..Len(trace) : trace[i] = "draw"

\* C15: a callback goes through drain, accumulate, zero or more steps (each
\* subtracting one frame size), last_frame = t, draw, reschedule, in this
\* order; every callback issues exactly one draw pass, also with zero steps,
\* after all of its steps, and the pass draws the session those steps left.
\* The accumulate phase adds t - last_frame to the accumulator, each step
\* takes one frame size off it, and no other phase touches it.  No callback is
\* scheduled while one runs, and at most one afterwards (the request of the
\* last phase can fail).
C15_PhaseOrder ==
    /\ [](Len(stamps) > 0 =>
            /\ Len(trace) <= Len(Phases(StepsNow))
            /\ trace = SubSeq(Phases(StepsNow), 1, Len(trace))
            /\ pc = "idle" => trace = Phases(StepsNow)
            /\ draws = IF Drawn THEN Len(stamps) ELSE Len(stamps) - 1
            /\ Len(trace) >= 1 => keystate = snapshot
            /\ Len(trace) < 2 => game_loop.accumulated_delta = loop0.accumulated_delta
            /\ game_loop.last_frame =
                  IF Len(trace) >= StepsNow + 3 THEN perf ELSE loop0.last_frame
            /\ Drawn => pass = WalkTheDog_draw(game)
            /\ scheduled <= IF pc = "idle" THEN 1 ELSE 0)
    /\ [][Len(stamps') > 0 =>
            game_loop'.accumulated_delta =
               IF trace' = Append(trace, "accumulate")
               THEN Accumulated(game_loop.accumulated_delta, perf, game_loop.last_frame)
               ELSE IF trace' = Append(trace, "update")
               THEN Subtracted(game_loop.accumulated_delta)
               ELSE game_loop.accumulated_delta]_vars

C15_Witness ==
    /\ pc = "idle"
    /\ Len(stamps) = 3
    /\ steps = <<0, 2, 0>>
    /\ draws = 3
    /\ pass # <<>>

Sum(s) == IF s = <<>> THEN 0 ELSE LET f[i \in 0..Len(s)] == IF i = 0 THEN 0 ELSE f[i - 1] + s[i] IN f[Len(s)]

\* C16: the number of simulation steps made by the end of a callback at time T
\* is the same for every sequence of callbacks from last_frame = 0 that ends at
\* T; in particular it is the number the single callback at T makes.
C16_RefreshIndependent ==
    (pc = "idle" /\ Len(stamps) > 0) =>
        Sum(steps) = CatchUp(Accumulated(Ms(0), perf, 0))

\* C17: once a callback has drained the queue, the held keys stay what the
\* drain left, whatever is enqueued meanwhile: every step of the callback
\* updates the session with that one snapshot.
C17_DrainPoint ==
    (Len(stamps) > 0 /\ Len(trace) >= 1) =>
        /\ keystate = snapshot
        /\ game = shadow

C17_Witness ==
    /\ pc = "while"
    /\ StepsNow >= 1
    /\ Behind(game_loop.accumulated_delta)
    /\ queue # <<>>
    /\ process_input(keystate, queue) # keystate
    /\ WalkTheDog_update(game, process_input(keystate, queue)) # WalkTheDog_update(game, keystate)

AllLoaded == \A i \in 1..Len(AssetFiles) : loads[i] = "ok"

\* The first file that did not load failed with a load error.
LoadError ==
    \E i \in 1..Len(AssetFiles) :
        /\ loads[i] = "error"
        /\ \A j \in 1..(i - 1) : loads[j] = "ok"

\* A file awaited so far gave no content.
LoadFailed == \E i \in 1..Len(AssetFiles) : loads[i] \notin {"ok", "none"}

\* C18: a Loaded session exists only after every file loaded, and only a
\* Loaded session is stepped or drawn; when a file fails to load, start
\* returns the error, the session stays Loading, no callback is scheduled or
\* run, and update and draw on the Loading session change and draw nothing.
\* (A Loaded session whose start returned the error of a browser call is
\* never stepped or drawn either.)
C18_LoadBeforePlay ==
    /\ game.tag = "Loaded" =>
          /\ AllLoaded
          /\ started \in {"Ok", "Err"}
          /\ started = "Err" =>
                /\ pc \in {"ended", "orphaned"} /\ scheduled = 0
                /\ stamps = <<>> /\ draws = 0 /\ pass = <<>> /\ check = NoCheck
    /\ game.tag # "Loaded" =>
          /\ game = Loading
          /\ stamps = <<>> /\ draws = 0 /\ pass = <<>> /\ check = NoCheck
          /\ scheduled = 0
          /\ \A held \in SUBSET Codes : WalkTheDog_update(game, held) = game
          /\ WalkTheDog_draw(game) = <<>>
    /\ pc = "loading" => game = Loading /\ started = "none" /\ ~LoadError
    /\ pc = "panicked" => game = Loading /\ started = "Panic" /\ enqueued = 0
    /\ (pc \notin {"start", "loading"} /\ LoadFailed) =>
          /\ started \in {"Err", "Panic"}
          /\ pc = "ended"
          /\ game = Loading
    /\ (pc # "start" /\ LoadError) =>
          /\ started = "Err"
          /\ pc = "ended"
          /\ game = Loading

C18_Witness ==
    /\ started = "Err"
    /\ loads[6] = "error"
    /\ game = Loading
    /\ enqueued > 0

\* ------------------------------------------------------------ session
\* C19: initialize on a Loaded session returns an error and leaves the session
\* (character, platform, stone, backgrounds) exactly as it was.  (A call is
\* the step that returns with the waiting initializations as they were, or
\* with one more that has got no file yet.)
C19_InitializeOnce ==
    [][(game.tag = "Loaded" /\ ret' # "none"
           /\ futures' \in {futures, Append(futures, NoLoads)})
          => (ret' = "Err" /\ game' = game /\ futures' = futures)]_vars

C19_Witness ==
    /\ game.tag = "Loaded"
    /\ ret = "Err"
    /\ AllLoaded
    /\ boy.state = "Running"
    /\ game.walk.platform.position.x < FIRST_PLATFORM

\* C20: when the character's bounding box overlaps the platform, the platform
\* check sends exactly one event: Land with the platform's top y if velocity.y
\* is positive and position.y is less than the platform's top y, KnockOut in
\* every other case; without an overlap it sends none.
C20_Resolution ==
    check # NoCheck =>
        check.events =
            IF ~check.overlap THEN <<>>
            ELSE IF check.vy > 0 /\ check.y < check.top
                 THEN <<Land_ev(check.top)>>
                 ELSE <<Ev("KnockOut")>>

C20_Witness ==
    /\ check # NoCheck
    /\ check.overlap
    /\ check.vy > 0
    /\ check.y < check.top
    /\ check.before.state = "Jumping"
    /\ check.events = <<Land_ev(LOW_PLATFORM)>>
    /\ check.stone = <<>>
    /\ boy.state = "Running"
    /\ boy.context.position.y = LOW_PLATFORM - PLAYER_HEIGHT

\* ------------------------------------------------------------ obstacles
\* The checks of the last simulation step that were made by an obstacle of
\* the given kind.
ChecksOf(kind) == {i \in 1..Len(segtick.checks) : segtick.checks[i].kind = kind}

Barriers == {i \in 1..Len(seg.obstacles) : seg.obstacles[i].kind = "Barrier"}

\* C21: a barrier sends KnockOut, and nothing else, whenever its box overlaps
\* the character's bounding box, whatever the character's velocity.y and
\* position.y, so a Running, Jumping or Sliding character is Falling after it;
\* it sends nothing and leaves the character as it was when the boxes do not
\* overlap.  The stone check of WalkTheDog::update sends the same events.
C21_BarrierKnocksOut ==
    /\ \A i \in ChecksOf("Barrier") :
          LET c == segtick.checks[i]
          IN  /\ c.events = IF c.overlaps # {} THEN <<Ev("KnockOut")>> ELSE <<>>
              /\ c.overlaps = {} => c.after = c.before
              /\ (c.overlaps # {} /\ c.before.state \in {"Running", "Jumping", "Sliding"})
                    => c.after.state = "Falling"
    /\ \A i \in Barriers :
          Walk_stone_events(seg.boy, seg.obstacles[i].image)
             = Barrier_check_intersection(seg.obstacles[i], seg.boy)

\* A descending character above the top of the stone overlapped it: the case
\* in which a platform lands the character.
C21_Witness ==
    \E i \in ChecksOf("Barrier") :
        LET c == segtick.checks[i]
        IN  /\ c.overlaps # {}
            /\ c.before.state = "Jumping"
            /\ c.before.context.velocity.y > 0
            /\ c.before.context.position.y < c.top
            /\ c.events = <<Ev("KnockOut")>>
            /\ c.after.state = "Falling"

Platforms == {i \in 1..Len(seg.obstacles) : seg.obstacles[i].kind = "Platform"}

\* The first of a set of box indices in the order left cap, middle span, right cap.
First(indices) == CHOOSE i \in indices : \A j \in indices : i <= j

\* C22: a platform resolves against the first of its boxes (left cap, middle
\* span, right cap) that overlaps the character: one check sends exactly one
\* event if at least one box overlaps, however many do, and none if no box
\* overlaps; the event is Land with the top y of that first box for a
\* descending character above the platform's top, KnockOut otherwise.
C22_FirstBox ==
    /\ \A i \in ChecksOf("Platform") :
          LET c == segtick.checks[i]
          IN  c.events =
                 IF c.overlaps = {} THEN <<>>
                 ELSE IF c.before.context.velocity.y > 0
                         /\ c.before.context.position.y < c.top
                      THEN <<Land_ev(c.tops[First(c.overlaps)])>>
                      ELSE <<Ev("KnockOut")>>
    /\ \A i \in Platforms :
          LET p == seg.obstacles[i]
              rect == RedHatBoy_bounding_box(seg.boy)
              hit == {k \in 1..Len(p.bounding_boxes) :
                         Rect_intersects(p.bounding_boxes[k], rect)}
          IN  SegmentPlatform_intersects(p, rect) =
                 IF hit = {} THEN <<>> ELSE <<p.bounding_boxes[First(hit)]>>

\* A descending character overlapped two boxes of a platform at once and was
\* landed once, on the platform's top.
C22_Witness ==
    \E i \in ChecksOf("Platform") :
        LET c == segtick.checks[i]
        IN  /\ Cardinality(c.overlaps) >= 2
            /\ c.events = <<Land_ev(LOW_PLATFORM)>>
            /\ c.before.state = "Jumping"
            /\ c.after.state = "Running"
            /\ c.after.context.position.y = LOW_PLATFORM - PLAYER_HEIGHT

\* The scroll distances of one step: none, or one step of running.
Moves == {0, -RUNNING_SPEED}

\* C23: move_horizontally(dx) adds dx to the x of the obstacle's position and
\* to the x of each of its bounding boxes and changes nothing else (y, widths,
\* heights, sprites); so every platform of the list, however far it has been
\* moved, has the boxes a platform created at its present position has, and
\* its right(), the right edge of its last box, is the greatest right edge of
\* its boxes.
C23_MoveKeepsShape ==
    /\ \A i \in Platforms :
          LET p == seg.obstacles[i]
          IN  /\ p.bounding_boxes =
                    [k \in 1..3 |->
                        [x      |-> p.position.x + FLOATING_PLATFORM_BOUNDING_BOXES[k].x,
                         y      |-> p.position.y,
                         width  |-> FLOATING_PLATFORM_BOUNDING_BOXES[k].width,
                         height |-> FLOATING_PLATFORM_BOUNDING_BOXES[k].height]]
              /\ p.position.y \in {LOW_PLATFORM, HIGH_PLATFORM}
              /\ \A k \in 1..3 : Rect_right(p.bounding_boxes[k]) <= SegmentPlatform_right(p)
              /\ SegmentPlatform_right(p) = p.position.x + 384
              /\ \A dx \in Moves :
                    LET q == SegmentPlatform_move_horizontally(p, dx)
                    IN  /\ q.position = [x |-> p.position.x + dx, y |-> p.position.y]
                        /\ q.sprites = p.sprites
                        /\ \A k \in 1..3 :
                              q.bounding_boxes[k] =
                                 [p.bounding_boxes[k] EXCEPT !.x = @ + dx]
    /\ \A i \in Barriers :
          LET b == seg.obstacles[i]
          IN  /\ b.image.position.y = STONE_ON_GROUND
              /\ \A dx \in Moves :
                    Barrier_move_horizontally(b, dx) =
                       [b EXCEPT !.image.position.x = @ + dx]

\* The platform of the starting layout after the world has scrolled: moved
\* left by the distance scrolled, with its three boxes.
C23_Witness ==
    /\ scrolled >= 100
    /\ \E i \in Platforms :
          /\ seg.obstacles[i].position = [x |-> FIRST_PLATFORM - scrolled, y |-> LOW_PLATFORM]
          /\ seg.obstacles[i].bounding_boxes[3].x = FIRST_PLATFORM - scrolled + 324
          /\ SegmentPlatform_right(seg.obstacles[i]) = FIRST_PLATFORM - scrolled + 384

\* C24: after every simulation step no obstacle of the active list has
\* right() <= 0: an obstacle is dropped in the step in which its right edge
\* reached the left boundary (it was right of it before that step's move), and
\* a draw pass draws the obstacles of the list and no other.
C24_Culled ==
    /\ \A i \in 1..Len(seg.obstacles) : Obstacle_right(seg.obstacles[i]) > 0
    /\ \A i \in 1..Len(segtick.culled) :
          /\ Obstacle_right(segtick.culled[i]) <= 0
          /\ Obstacle_right(segtick.culled[i]) - segtick.velocity > 0
          /\ \A k \in 1..Len(seg.obstacles) : seg.obstacles[k] # segtick.culled[i]
    /\ segpass # <<>> => SubSeq(segpass, 5, Len(segpass)) = DrawAll(seg.obstacles)

\* A step dropped an obstacle and the draw pass after it drew the rest.
C24_Witness ==
    /\ segtick.culled # <<>>
    /\ segtick.velocity = -RUNNING_SPEED
    /\ seg.obstacles # <<>>
    /\ Len(segpass) > 4

\* ------------------------------------------------------------ arithmetic
InI16(n) == -32768 <= n /\ n <= 32767

\* C26: no arithmetic on the character's i16 fields overflows: in every
\* reachable state the sums the next Update computes, velocity.y + GRAVITY and
\* then position.y + that velocity, are within [-32768, 32767].
C26_NoOverflow ==
    /\ InI16(ctx.velocity.y + GRAVITY)
    /\ InI16(ctx.position.y + (ctx.velocity.y + GRAVITY))

\* C27: at the end of every callback the accumulator is between 0 and
\* FRAME_SIZE, and the catch-up loop of every callback ends after finitely
\* many turns, whatever the stall before it: every turn of the loop leaves the
\* accumulator lower than it found it.
C27_CatchUpEnds ==
    /\ pc = "idle" =>
          /\ ~Less(game_loop.accumulated_delta, Ms(0))
          /\ ~Behind(game_loop.accumulated_delta)
    /\ (pc = "while" /\ Behind(game_loop.accumulated_delta)) =>
          Less(Subtracted(game_loop.accumulated_delta), game_loop.accumulated_delta)

\* ------------------------------------------------------------ keys and scrolling
\* The machine after ev if key is held, else the machine as it is.
Pressed(sm, held, key, ev) == IF key \in held THEN transition(sm, ev) ELSE sm

\* The character as the key dispatch and walk.boy.update() of one step with
\* the keys held leave it.
AfterKeys(held) == Walk_update(game.walk, held).after_update.state_machine

\* C28: one simulation step applies the held keys in the order Slide
\* (ArrowDown), Run (ArrowRight), Jump (Space) and then the Update: a Running
\* character with ArrowDown and Space held is Sliding after the step, as with
\* ArrowDown alone; an Idle character with ArrowRight and Space held is
\* Jumping after that one step.
C28_KeyOrder ==
    /\ game.tag = "Loaded" =>
          /\ \A held \in SUBSET Codes :
                AfterKeys(held) =
                   transition(
                      Pressed(Pressed(Pressed(boy, held, "ArrowDown", Ev("Slide")),
                                      held, "ArrowRight", Ev("Run")),
                              held, "Space", Ev("Jump")),
                      Ev("Update"))
          /\ boy.state = "Running" =>
                /\ AfterKeys({"ArrowDown", "Space"}).state = "Sliding"
                /\ AfterKeys({"ArrowDown", "Space"}) = AfterKeys({"ArrowDown"})
          /\ boy.state = "Idle" =>
                /\ AfterKeys({"ArrowRight", "Space"}).state = "Jumping"
                /\ AfterKeys({"ArrowRight", "Space"}).context.velocity =
                      [x |-> RUNNING_SPEED, y |-> JUMP_SPEED + GRAVITY]
    /\ (check # NoCheck /\ check.before.state = "Running" /\ check.after.state = "Jumping")
          => check.vy = JUMP_SPEED + GRAVITY

\* A single step took the Idle character to Jumping.
C28_Witness ==
    /\ game.tag = "Loaded"
    /\ check # NoCheck
    /\ check.before.state = "Idle"
    /\ check.after.state = "Jumping"
    /\ check.vy = JUMP_SPEED + GRAVITY

\* The positions of the platform, the stone and the two backgrounds.
World(g) ==
    << g.walk.platform.position, g.walk.stone.position,
       g.walk.backgrounds[1].position, g.walk.backgrounds[2].position >>

\* A background after a step that scrolls by v: shifted by v, or, when that
\* puts all of it left of the canvas, put at the right edge of the other one.
Scrolled(before, after, other, v) ==
    /\ after.position.y = before.position.y
    /\ \/ after.position.x = before.position.x + v
       \/ /\ before.position.x + v + before.width < 0
          /\ after.position.x = Image_right(other)

\* C29: a simulation step shifts the platform, the stone and both backgrounds
\* of the session by the negated velocity.x the character has after its update
\* in that step (a background that leaves the canvas goes behind the other);
\* a draw pass moves none of them; a step whose update leaves the character
\* Idle does not move them, and none of them moves again once the character
\* is Falling or KnockedOut, whatever keys are held.  An initialize leaves the
\* session as it is, and one that ends Ok while this session is held hands
\* the caller another, newly built session.
C29_WorldFollows ==
    [][ game.tag = "Loaded" =>
          /\ game'.tag = "Loaded"
          /\ ret' # "none" =>
                \/ game' = game
                \/ ret' = "Ok" /\ \E assets \in Assets : game' = Loaded(Walk_new(assets))
          /\ ret' = "none" =>
                LET update == check' # NoCheck /\ pass' = <<>>
                    v == IF update THEN -(check'.vx) ELSE 0
                    a == game.walk
                    b == game'.walk
                IN  /\ b.platform.position = [a.platform.position EXCEPT !.x = @ + v]
                    /\ b.stone.position = [a.stone.position EXCEPT !.x = @ + v]
                    /\ Scrolled(a.backgrounds[1], b.backgrounds[1], b.backgrounds[2], v)
                    /\ Scrolled(a.backgrounds[2], b.backgrounds[2], b.backgrounds[1], v)
                    /\ (update /\ check'.after.state = "Idle") => World(game') = World(game)
                    /\ (update /\ check'.after.state \in {"Running", "Sliding", "Jumping"})
                          => v = -RUNNING_SPEED
                    /\ boy.state \in {"Falling", "KnockedOut"} => World(game') = World(game)
      ]_vars

\* The world had scrolled, the character was knocked out, and the steps since
\* have left the world where it was.
C29_Witness ==
    /\ game.tag = "Loaded"
    /\ boy.state = "KnockedOut"
    /\ check # NoCheck
    /\ check.before.state = "KnockedOut"
    /\ check.vx = 0
    /\ game.walk.stone.position.x < 150
    /\ game.walk.platform.position.x = FIRST_PLATFORM + (game.walk.stone.position.x - 150)

Moving == {"Running", "Sliding", "Jumping"}

\* C30: velocity.x is RUNNING_SPEED exactly in Running, Sliding and Jumping
\* and 0 exactly in Idle, Falling and KnockedOut, and never anything else; no
\* event takes a character that has left Idle back to Idle; and position.x
\* stays what RedHatBoyState<Idle>::new set it to.
C30_HorizontalVelocity ==
    /\ ctx.velocity.x \in {0, RUNNING_SPEED}
    /\ ctx.velocity.x = RUNNING_SPEED <=> machine.state \in Moving
    /\ ctx.velocity.x = 0 <=> machine.state \in {"Idle", "Falling", "KnockedOut"}
    /\ prev.state # "Idle" => machine.state # "Idle"
    /\ (ran >= 0 \/ fall < 0 \/ down >= 0 \/ slide # NoSlide) => machine.state # "Idle"
    /\ ctx.position.x = STARTING_POINT
    /\ pctx.position.x = STARTING_POINT

\* A sliding character was knocked out: it ran at RUNNING_SPEED and stands
\* still now, where it started.
C30_Witness ==
    /\ event.kind = "KnockOut"
    /\ prev.state = "Sliding"
    /\ pctx.velocity.x = RUNNING_SPEED
    /\ machine.state = "Falling"
    /\ ctx.velocity.x = 0
    /\ ctx.position.x = STARTING_POINT

\* ------------------------------------------------------------ backgrounds
\* C31: after every simulation step the two backgrounds are side by side, the
\* left edge of one at the right edge of the other, and between them cover
\* the x range from 0 to the width of a background: neither is wholly left
\* of x = 0.
C31_BackgroundsAdjacent ==
    game.tag = "Loaded" =>
        LET a == game.walk.backgrounds[1]
            b == game.walk.backgrounds[2]
        IN  /\ a.width = b.width
            /\ a.position.y = 0 /\ b.position.y = 0
            /\ a.position.x = Image_right(b) \/ b.position.x = Image_right(a)
            /\ Image_right(a) >= 0 /\ Image_right(b) >= 0
            /\ a.position.x <= 0 \/ b.position.x <= 0
            /\ Image_right(a) >= a.width \/ Image_right(b) >= a.width

\* The first background went round behind the second and the second, later,
\* behind the first.
C31_Witness ==
    /\ game.tag = "Loaded"
    /\ game.walk.platform.position.x
          < FIRST_PLATFORM - 2 * game.walk.backgrounds[1].width
    /\ game.walk.backgrounds[1].position.x < 0
    /\ game.walk.backgrounds[2].position.x = Image_right(game.walk.backgrounds[1])
    /\ check # NoCheck
    /\ check.vx = RUNNING_SPEED

\* ------------------------------------------------------------ key events
\* The kinds of the events of receiver that are for a key, oldest first.
Kinds(receiver, code) ==
    LET RECURSIVE kinds(_)
        kinds(i) == IF i > Len(receiver) THEN <<>>
                    ELSE (IF receiver[i].code = code THEN <<receiver[i].kind>> ELSE <<>>)
                         \o kinds(i + 1)
    IN  kinds(1)

\* The kind of the last event of receiver for a key, "none" without one.
Last(receiver, code) ==
    LET sent == Kinds(receiver, code)
    IN  IF sent = <<>> THEN "none" ELSE sent[Len(sent)]

\* C32: a drain receives every pending event, oldest first, and leaves the
\* queue empty; after it a key is held exactly when the last event ever sent
\* for it is a key-down. So a key that was up, then pressed and released
\* before the next drain, is not held after that drain, and no step of the
\* callback is given it as held; a key-down for a key that is held leaves it
\* held.  (Stated while the receiver lives: a start that failed dropped it.)
C32_LastEventWins ==
    pc # "ended" =>
        LET held == process_input(keystate, queue)
        IN  /\ held = latest.down
            /\ queue = <<>> => keystate = latest.down
            /\ pc = "accumulate" =>
                  /\ snapshot = keystate
                  /\ Len(queue) + Len(latest.drained) <= enqueued
                  /\ enqueued = Len(latest.drained) => queue = <<>>
                  /\ \A code \in Keys :
                        LET last == Last(latest.drained, code)
                        IN  /\ last = "KeyUp" => code \notin keystate
                            /\ last = "KeyDown" => code \in keystate
            /\ \A code \in Keys :
                  LET last == Last(queue, code)
                  IN  /\ last = "KeyUp" => code \notin held
                      /\ last = "KeyDown" => code \in held
                      /\ last = "none" => (code \in held <=> code \in keystate)
                      /\ code \in keystate
                            => process_input(keystate, <<KeyDownEv(code)>>) = keystate
            /\ (Len(stamps) > 0 /\ Len(trace) >= 1 /\ steps[Len(steps)] > 0) =>
                  keystate = snapshot

\* The second callback drained a key-down and the key-up of the same key,
\* both sent after the first drain: no key is held.
C32_Witness ==
    /\ pc = "accumulate"
    /\ Len(stamps) = 2
    /\ latest.drained = <<KeyDownEv("Space"), KeyUpEv("Space")>>
    /\ enqueued = 2
    /\ queue = <<>>
    /\ keystate = {}
    /\ latest.down = {}

\* ------------------------------------------------------------ the jump ends
\* C33: a jump from the floor ends.  While the character is Jumping its
\* vertical velocity is one of -25..23 and rises by GRAVITY with each Update,
\* and position.y is the height that velocity gives; the Update that ends the
\* jump gives Running with position.y = FLOOR; and a Jumping character that
\* keeps receiving Updates leaves Jumping for Running on the floor.
C33_JumpEnds ==
    /\ [](machine.state = "Jumping" =>
            /\ ctx.velocity.y \in JUMP_SPEED .. (-JUMP_SPEED - 2)
            /\ 2 * (FLOOR - ctx.position.y)
                  = JUMP_SPEED * (JUMP_SPEED + 1) - ctx.velocity.y * (ctx.velocity.y + 1))
    /\ [][(machine.state = "Jumping" /\ event'.kind = "Update") =>
            IF machine'.state = "Jumping"
            THEN machine'.context.velocity.y = ctx.velocity.y + GRAVITY
            ELSE /\ machine'.state = "Running"
                 /\ machine'.context.position.y = FLOOR]_vars
    /\ (machine.state = "Jumping") ~>
            (machine.state = "Running" /\ ctx.position.y = FLOOR)

\* The Update that ends a whole jump: the one after 48 Updates in the air.
C33_Witness ==
    /\ event.kind = "Update"
    /\ prev.state = "Jumping"
    /\ pctx.velocity.y = -JUMP_SPEED - 2
    /\ pctx.position.y = FLOOR + JUMP_SPEED + 1
    /\ machine.state = "Running"
    /\ ctx.position.y = FLOOR

====
